---- MODULE Spec2Model ----
(***************************************************************************)
(* The OpenAPI MCP server: the tool naming engine and the tool description *)
(* generator (src/services/tool-generator.ts), a generation pass over the  *)
(* operations of one OpenAPI document, the sliding-window rate limiter     *)
(* (class RateLimiter) and the tool handlers of the server                 *)
(* (src/server/mcp-server.ts).                                             *)
(*                                                                         *)
(* A JavaScript string is modelled as a sequence of one-character strings, *)
(* so that every regular expression and every string method of the source *)
(* is computed character by character.                                     *)
(***************************************************************************)
EXTENDS Integers, Sequences, FiniteSets, TLC

VARIABLES
    pc,          \* position of the caller: "call" | "done" | "pass" | "limiter" | "idle" | "handling"
    arg,         \* the arguments of the call in progress (a record)
    ret,         \* what the call returned (<<>> before it returns)
    operations,  \* the operations of the document, in declaration order
    registered,  \* the generation pass's registrations, in order: [name, op]
    now,                     \* Date.now(), in milliseconds
    requests,                \* RateLimiter.requests: the timestamps counted
    calls,                   \* history: the checkLimit calls since construction or reset
    RATE_LIMIT_CONFIG,       \* [enabled, maxRequests, windowMs]
    services,                \* EnvironmentManager.services: environment -> operationIds of its spec
    registeredOperationIds,  \* the operationIds that have a tool
    defaultEnvironment,      \* EnvironmentManager.defaultEnvironment
    definitions,             \* environment -> operationId -> the operation's definition in its spec
    toolOperation,           \* operationId -> the definition registerOperationTool read
    ENVIRONMENT_CONFIG,      \* [environments, defaultEnvironment, configs]
    transports,              \* SessionManager.transports, in insertion order: [sessionId, transport]
    closing,                 \* the closeAll call in progress: its position and its for-in loop
    closed                   \* history: the close() calls of that closeAll call, in order

namingVars == <<operations, registered>>

toolVars == <<now, requests, calls, RATE_LIMIT_CONFIG, services, registeredOperationIds, defaultEnvironment,
              definitions, toolOperation, ENVIRONMENT_CONFIG>>

sessionVars == <<transports, closing, closed>>

serverVars == <<toolVars, sessionVars>>

vars == <<pc, arg, ret, operations, registered, now, requests, calls, RATE_LIMIT_CONFIG,
          services, registeredOperationIds, defaultEnvironment, definitions, toolOperation,
          ENVIRONMENT_CONFIG, transports, closing, closed>>

\* No session manager is in use.
SessionIdle ==
    /\ transports = <<>>
    /\ closing = <<>>
    /\ closed = <<>>

\* No server is running: the naming functions are called on their own.
ServerIdle ==
    /\ now = 0
    /\ requests = <<>>
    /\ calls = <<>>
    /\ RATE_LIMIT_CONFIG = [enabled |-> FALSE, maxRequests |-> 0, windowMs |-> 0]
    /\ services = <<>>
    /\ registeredOperationIds = {}
    /\ defaultEnvironment = ""
    /\ definitions = <<>>
    /\ toolOperation = <<>>
    /\ ENVIRONMENT_CONFIG = <<>>
    /\ SessionIdle

(***************************************************************************)
(* Characters and the string methods the source uses.                      *)
(***************************************************************************)
Lower == {"a","b","c","d","e","f","g","h","i","j","k","l","m","n","o","p","q","r","s","t","u","v","w","x","y","z"}

Upper == {"A","B","C","D","E","F","G","H","I","J","K","L","M","N","O","P","Q","R","S","T","U","V","W","X","Y","Z"}

Digit == {"0","1","2","3","4","5","6","7","8","9"}

LowerOf == [A |-> "a", B |-> "b", C |-> "c", D |-> "d", E |-> "e", F |-> "f", G |-> "g", H |-> "h", I |-> "i", J |-> "j", K |-> "k", L |-> "l", M |-> "m", N |-> "n", O |-> "o", P |-> "p", Q |-> "q", R |-> "r", S |-> "s", T |-> "t", U |-> "u", V |-> "v", W |-> "w", X |-> "x", Y |-> "y", Z |-> "z"]

UpperOf == [a |-> "A", b |-> "B", c |-> "C", d |-> "D", e |-> "E", f |-> "F", g |-> "G", h |-> "H", i |-> "I", j |-> "J", k |-> "K", l |-> "L", m |-> "M", n |-> "N", o |-> "O", p |-> "P", q |-> "Q", r |-> "R", s |-> "S", t |-> "T", u |-> "U", v |-> "V", w |-> "W", x |-> "X", y |-> "Y", z |-> "Z"]

\* The characters of the regular expression class [a-zA-Z0-9_].
WordChar == Lower \cup Upper \cup Digit \cup {"_"}

\* String.prototype.toLowerCase, on ASCII.
toLowerCase(s) == [i \in 1..Len(s) |-> IF s[i] \in Upper THEN LowerOf[s[i]] ELSE s[i]]

\* String.prototype.toUpperCase, on ASCII.
toUpperCase(s) == [i \in 1..Len(s) |-> IF s[i] \in Lower THEN UpperOf[s[i]] ELSE s[i]]

\* String.prototype.startsWith.
startsWith(s, p) == Len(p) <= Len(s) /\ SubSeq(s, 1, Len(p)) = p

\* String.prototype.endsWith.
endsWith(s, p) == Len(p) <= Len(s) /\ SubSeq(s, Len(s) - Len(p) + 1, Len(s)) = p

\* String.prototype.includes.
includes(s, p) == \E i \in 0..(Len(s) - Len(p)) : SubSeq(s, i + 1, i + Len(p)) = p

\* String.prototype.slice(from) with from >= 0 (0-based).
sliceFrom(s, from) == SubSeq(s, from + 1, Len(s))

\* String.prototype.slice(0, -n).
sliceDropLast(s, n) == SubSeq(s, 1, Len(s) - n)

\* Array.prototype.includes.
arrayIncludes(a, x) == \E i \in 1..Len(a) : a[i] = x

\* The index of the first occurrence of character c in s, 0 when there is none.
IndexOfChar(s, c) == IF \E i \in 1..Len(s) : s[i] = c THEN CHOOSE i \in 1..Len(s) : s[i] = c /\ \A j \in 1..(i - 1) : s[j] # c ELSE 0

\* String.prototype.split(c) for a one-character separator: "a//b" gives
\* <<"a", "", "b">> and "" gives <<"">>.
RECURSIVE split(_, _)
split(s, c) ==
    LET i == IndexOfChar(s, c)
    IN  IF i = 0 THEN <<s>> ELSE <<SubSeq(s, 1, i - 1)>> \o split(SubSeq(s, i + 1, Len(s)), c)

\* Array.prototype.join(c) for a separator string.
RECURSIVE join(_, _)
join(a, sep) ==
    IF Len(a) = 0 THEN <<>>
    ELSE IF Len(a) = 1 THEN a[1]
    ELSE a[1] \o sep \o join(Tail(a), sep)

\* replace(/^c+/, ''): the leading run of character c removed.
RECURSIVE DropLeading(_, _)
DropLeading(s, c) == IF Len(s) > 0 /\ s[1] = c THEN DropLeading(Tail(s), c) ELSE s

\* replace(/c+$/, ''): the trailing run of character c removed.
RECURSIVE DropTrailing(_, _)
DropTrailing(s, c) == IF Len(s) > 0 /\ s[Len(s)] = c THEN DropTrailing(SubSeq(s, 1, Len(s) - 1), c) ELSE s

\* replace(/^_+|_+$/g, '').
StripUnderscores(s) == DropTrailing(DropLeading(s, "_"), "_")

(***************************************************************************)
(* sanitizeToolName                                                        *)
(***************************************************************************)
\* replace(/[^a-zA-Z0-9_]/g, '_').
ReplaceNonWord(s) == [i \in 1..Len(s) |-> IF s[i] \in WordChar THEN s[i] ELSE "_"]

\* if (/^\d/.test(name)) name = 'api_' + name.
PrefixIfDigit(name) == IF Len(name) > 0 /\ name[1] \in Digit THEN <<"a","p","i","_">> \o name ELSE name

\* A slip in the order of the steps: the digit test made before the underscores
\* are stripped.
sanitizeToolName_PrefixBeforeStrip(operationId) == toLowerCase(StripUnderscores(PrefixIfDigit(ReplaceNonWord(operationId))))

\* A slip: the 'api_' prefix forgotten.
sanitizeToolName_NoPrefix(operationId) == toLowerCase(StripUnderscores(ReplaceNonWord(operationId)))

sanitizeToolName(operationId) == toLowerCase(PrefixIfDigit(StripUnderscores(ReplaceNonWord(operationId))))

(***************************************************************************)
(* The action vocabulary and the identifier tokenizer.                     *)
(***************************************************************************)
\* null, as returned by extractActionFromPath and extractVersionFromPath: no
\* action word and no version is the empty string, which `if (x)` treats alike.
null == <<>>

ACTION_WORDS ==
    << <<"a","c","t","i","v","a","t","e">>,
       <<"a","d","d">>,
       <<"a","p","p","r","o","v","e">>,
       <<"a","r","c","h","i","v","e">>,
       <<"a","s","s","o","c","i","a","t","e">>,
       <<"c","a","l","c","u","l","a","t","e">>,
       <<"c","a","n","c","e","l">>,
       <<"c","a","p","t","u","r","e">>,
       <<"c","e","r","t","i","f","y">>,
       <<"c","h","a","n","g","e">>,
       <<"c","h","e","c","k">>,
       <<"c","l","e","a","n","s","e">>,
       <<"c","o","m","p","u","t","e">>,
       <<"c","o","n","f","i","r","m">>,
       <<"c","r","e","a","t","e">>,
       <<"d","e","a","c","t","i","v","a","t","e">>,
       <<"d","e","l","e","t","e">>,
       <<"d","i","s","a","b","l","e">>,
       <<"d","i","s","m","i","s","s">>,
       <<"d","o","w","n","l","o","a","d">>,
       <<"e","d","i","t">>,
       <<"e","m","a","i","l">>,
       <<"e","n","a","b","l","e">>,
       <<"e","n","q","u","e","u","e">>,
       <<"e","n","r","o","l","l">>,
       <<"e","x","e","c","u","t","e">>,
       <<"e","x","p","o","r","t">>,
       <<"f","i","l","t","e","r">>,
       <<"f","i","n","d">>,
       <<"f","u","l","f","i","l","l">>,
       <<"g","e","n","e","r","a","t","e">>,
       <<"g","e","t">>,
       <<"i","m","p","o","r","t">>,
       <<"i","n","s","e","r","t">>,
       <<"i","n","v","o","k","e">>,
       <<"l","i","n","k">>,
       <<"l","i","s","t">>,
       <<"l","o","g">>,
       <<"l","o","o","k","u","p">>,
       <<"m","a","k","e">>,
       <<"m","e","r","g","e">>,
       <<"m","o","v","e">>,
       <<"p","e","r","s","i","s","t">>,
       <<"p","l","e","d","g","e">>,
       <<"p","r","i","n","t">>,
       <<"p","r","o","c","e","s","s">>,
       <<"p","u","b","l","i","s","h">>,
       <<"q","u","e","r","y">>,
       <<"q","u","e","u","e">>,
       <<"r","e","c","e","i","v","e">>,
       <<"r","e","f","r","e","s","h">>,
       <<"r","e","g","i","s","t","e","r">>,
       <<"r","e","j","e","c","t">>,
       <<"r","e","m","o","v","e">>,
       <<"r","e","p","r","i","n","t">>,
       <<"r","e","q","u","e","s","t">>,
       <<"r","e","s","e","t">>,
       <<"r","e","s","e","n","d">>,
       <<"r","e","s","o","l","v","e">>,
       <<"r","e","s","t","o","r","e">>,
       <<"r","u","n">>,
       <<"s","a","v","e">>,
       <<"s","e","a","r","c","h">>,
       <<"s","e","n","d">>,
       <<"s","e","t">>,
       <<"s","t","a","g","e">>,
       <<"s","t","a","y">>,
       <<"s","u","b","m","i","t">>,
       <<"s","u","g","g","e","s","t">>,
       <<"s","y","n","c">>,
       <<"t","r","a","n","s","f","e","r">>,
       <<"t","r","i","g","g","e","r">>,
       <<"u","n","a","r","c","h","i","v","e">>,
       <<"u","n","d","o">>,
       <<"u","n","l","i","n","k">>,
       <<"u","p","d","a","t","e">>,
       <<"u","p","l","o","a","d">>,
       <<"u","p","s","e","r","t">>,
       <<"v","a","l","i","d","a","t","e">>,
       <<"v","e","r","i","f","y">>,
       <<"w","a","i","v","e">> >>

\* The first element of array a whose flag is set, null when none is: a loop
\* over a that returns on the first hit.
FirstWhere(a, flags) ==
    IF \E i \in 1..Len(a) : flags[i]
    THEN a[CHOOSE i \in 1..Len(a) : flags[i] /\ \A j \in 1..(i - 1) : ~flags[j]]
    ELSE null

\* map((s) => s.toLowerCase()).
mapToLowerCase(a) == [i \in 1..Len(a) |-> toLowerCase(a[i])]

\* replace(/([A])([B])/g, '$1<sep>$2') for character classes A and B: matches are
\* found left to right and do not overlap.
RECURSIVE ReplacePair(_, _, _, _)
ReplacePair(s, A, B, sep) ==
    IF Len(s) = 0 THEN <<>>
    ELSE IF Len(s) >= 2 /\ s[1] \in A /\ s[2] \in B
         THEN <<s[1], sep, s[2]>> \o ReplacePair(SubSeq(s, 3, Len(s)), A, B, sep)
         ELSE <<s[1]>> \o ReplacePair(Tail(s), A, B, sep)

\* replace(/([A-Z])([A-Z][a-z])/g, '$1 $2').
RECURSIVE ReplaceAcronym(_)
ReplaceAcronym(s) ==
    IF Len(s) = 0 THEN <<>>
    ELSE IF Len(s) >= 3 /\ s[1] \in Upper /\ s[2] \in Upper /\ s[3] \in Lower
         THEN <<s[1], " ", s[2], s[3]>> \o ReplaceAcronym(SubSeq(s, 4, Len(s)))
         ELSE <<s[1]>> \o ReplaceAcronym(Tail(s))

\* split(/\s+/): " a" gives <<"", "a">> and "a " gives <<"a", "">>.
RECURSIVE splitWhitespace(_)
splitWhitespace(s) ==
    LET i == IndexOfChar(s, " ")
    IN  IF i = 0 THEN <<s>>
        ELSE <<SubSeq(s, 1, i - 1)>> \o splitWhitespace(DropLeading(SubSeq(s, i + 1, Len(s)), " "))

splitCamelCase(str) == mapToLowerCase(splitWhitespace(ReplaceAcronym(ReplacePair(str, Lower, Upper, " "))))

(***************************************************************************)
(* extractActionFromPath                                                   *)
(***************************************************************************)
IsActionWord(w) == arrayIncludes(ACTION_WORDS, w)

\* The body of the loop over the segments: the action word one segment yields
\* (exact, kebab part, camelCase word, prefix, in that order), null when none.
SegmentAction(segment) ==
    LET lowerSegment == toLowerCase(segment)
        kebabParts   == IF includes(segment, <<"-">>) THEN mapToLowerCase(split(segment, "-")) ELSE <<>>
        camelWords   == splitCamelCase(segment)
        kebabHit     == FirstWhere(kebabParts, [i \in 1..Len(kebabParts) |-> IsActionWord(kebabParts[i])])
        camelHit     == FirstWhere(camelWords, [i \in 1..Len(camelWords) |-> IsActionWord(camelWords[i])])
        prefixHit    == FirstWhere(ACTION_WORDS,
                                   [i \in 1..Len(ACTION_WORDS) |-> startsWith(lowerSegment, ACTION_WORDS[i])])
    IN  IF IsActionWord(lowerSegment) THEN lowerSegment
        ELSE IF kebabHit # null THEN kebabHit
        ELSE IF camelHit # null THEN camelHit
        ELSE prefixHit

\* A scan that looks for an exact match in every segment before it tries the
\* other ways of matching.
extractActionFromPath_ExactFirst(path) ==
    LET segments == SelectSeq(split(path, "/"), LAMBDA s : Len(s) > 0 /\ ~startsWith(s, <<"{">>))
        lowered  == mapToLowerCase(segments)
        exact    == FirstWhere(lowered, [i \in 1..Len(segments) |-> IsActionWord(lowered[i])])
        actions  == [i \in 1..Len(segments) |-> SegmentAction(segments[i])]
    IN  IF exact # null THEN exact
        ELSE FirstWhere(actions, [i \in 1..Len(segments) |-> actions[i] # null])

extractActionFromPath(path) ==
    LET segments == SelectSeq(split(path, "/"), LAMBDA s : Len(s) > 0 /\ ~startsWith(s, <<"{">>))
        actions  == [i \in 1..Len(segments) |-> SegmentAction(segments[i])]
    IN  FirstWhere(actions, [i \in 1..Len(segments) |-> actions[i] # null])

(***************************************************************************)
(* extractResourceName                                                     *)
(***************************************************************************)
\* replace(/\{[^}]+\}/g, ''): a '{', at least one character other than '}', a '}'.
RECURSIVE RemovePathParams(_)
RemovePathParams(s) ==
    IF Len(s) = 0 THEN <<>>
    ELSE LET close == IndexOfChar(Tail(s), "}")
         IN  IF s[1] = "{" /\ close >= 2
             THEN RemovePathParams(SubSeq(s, close + 2, Len(s)))
             ELSE <<s[1]>> \o RemovePathParams(Tail(s))

\* s.match(/^v\d+$/).
IsBareVersion(s) == Len(s) >= 2 /\ s[1] = "v" /\ \A i \in 2..Len(s) : s[i] \in Digit

\* A slip: the rule for a final 's' tried before the rule for a final 'es'.
Singularize_PluralSFirst(resource) ==
    LET lowerResource == toLowerCase(resource)
    IN  IF endsWith(lowerResource, <<"i","e","s">>) THEN sliceDropLast(resource, 3) \o <<"y">>
        ELSE IF endsWith(lowerResource, <<"s">>) /\ Len(resource) > 1 THEN sliceDropLast(resource, 1)
        ELSE IF endsWith(lowerResource, <<"e","s">>) /\ Len(resource) > 2 THEN sliceDropLast(resource, 2)
        ELSE resource

\* Step 4 of extractResourceName: the naive singularization.
Singularize(resource) ==
    LET lowerResource == toLowerCase(resource)
    IN  IF endsWith(lowerResource, <<"i","e","s">>) THEN sliceDropLast(resource, 3) \o <<"y">>
        ELSE IF endsWith(lowerResource, <<"e","s">>) /\ Len(resource) > 2 THEN sliceDropLast(resource, 2)
        ELSE IF endsWith(lowerResource, <<"s">>) /\ Len(resource) > 1 THEN sliceDropLast(resource, 1)
        ELSE resource

\* Step 2: a kebab-case segment whose first part is an action word loses it.
StripKebabAction(resource) ==
    LET kebabParts == split(resource, "-")
    IN  IF includes(resource, <<"-">>) /\ IsActionWord(toLowerCase(kebabParts[1]))
        THEN join(Tail(kebabParts), <<"-">>)
        ELSE resource

\* Step 3: a camelCase segment whose first word is an action word loses it.
StripCamelAction(resource) ==
    LET camelWords == splitCamelCase(resource)
    IN  IF Len(camelWords) > 1 /\ IsActionWord(camelWords[1])
        THEN join(Tail(camelWords), <<>>)
        ELSE resource

extractResourceName(path) ==
    LET cleanPath == RemovePathParams(path)
        segments  == SelectSeq(split(cleanPath, "/"),
                               LAMBDA s : Len(s) > 0 /\ s # <<"a","p","i">> /\ ~IsBareVersion(s))
        n         == Len(segments)
        lastSegmentLower == toLowerCase(segments[n])
    IN  IF n = 0 THEN <<"r","e","s","o","u","r","c","e">>
        ELSE IF IsActionWord(lastSegmentLower) /\ n = 1 THEN lastSegmentLower
        ELSE LET resource == IF IsActionWord(lastSegmentLower) THEN segments[n - 1] ELSE segments[n]
             IN  toLowerCase(Singularize(StripCamelAction(StripKebabAction(resource))))

(***************************************************************************)
(* generateFriendlyToolName.  An operation is a record [operationId,       *)
(* method, path] of strings (ApiOperation without the fields the naming    *)
(* functions never read).                                                  *)
(***************************************************************************)
\* replace(/_+/g, '_').
RECURSIVE CollapseUnderscores(_)
CollapseUnderscores(s) ==
    IF Len(s) = 0 THEN <<>>
    ELSE IF s[1] = "_" THEN <<"_">> \o CollapseUnderscores(DropLeading(s, "_"))
    ELSE <<s[1]>> \o CollapseUnderscores(Tail(s))

camelToSnakeCase(str) ==
    LET hyphens == [i \in 1..Len(str) |-> IF str[i] = "-" THEN "_" ELSE str[i]]
        result  == toLowerCase(ReplacePair(hyphens, Lower \cup Digit, Upper, "_"))
    IN  StripUnderscores(CollapseUnderscores(result))

CrudVerbs == {<<"g","e","t">>, <<"p","o","s","t">>, <<"p","u","t">>, <<"p","a","t","c","h">>, <<"d","e","l","e","t","e">>}

\* /^(get|post|put|patch|delete)_.*_/.test(s).
MatchesMethodPathShape(s) ==
    \E verb \in CrudVerbs :
        /\ startsWith(s, verb \o <<"_">>)
        /\ includes(sliceFrom(s, Len(verb) + 1), <<"_">>)

isAutoGenerated(operation) ==
    \/ operation.operationId = <<>>
    \/ startsWith(toLowerCase(operation.operationId), toLowerCase(operation.method) \o <<"_">>)
    \/ includes(operation.operationId, <<"a","p","i","_","v">>)
    \/ MatchesMethodPathShape(toLowerCase(operation.operationId))

\* The switch on the upper-cased method: the name before it is sanitized.
FriendlyNameFor(method, resource, hasPathParam, action) ==
    CASE method = <<"G","E","T">> ->
            IF hasPathParam THEN <<"g","e","t","_">> \o resource
            ELSE <<"l","i","s","t","_">> \o resource \o <<"s">>
      [] method = <<"P","O","S","T">> ->
            IF action # null
            THEN IF resource = action THEN action ELSE action \o <<"_">> \o resource
            ELSE <<"c","r","e","a","t","e","_">> \o resource
      [] method = <<"P","U","T">> -> <<"u","p","d","a","t","e","_">> \o resource
      [] method = <<"P","A","T","C","H">> -> <<"p","a","t","c","h","_">> \o resource
      [] method = <<"D","E","L","E","T","E">> -> <<"d","e","l","e","t","e","_">> \o resource
      [] OTHER -> toLowerCase(method) \o <<"_">> \o resource

\* A slip: the method taken as it is for every method but GET and POST, so that
\* PUT gives put_<resource>.
SynthesizedName_NoVerbTable(operation) ==
    LET method   == toUpperCase(operation.method)
        resource == extractResourceName(operation.path)
    IN  IF method \in {<<"G","E","T">>, <<"P","O","S","T">>}
        THEN FriendlyNameFor(method, resource, includes(operation.path, <<"{">>),
                             extractActionFromPath(operation.path))
        ELSE toLowerCase(method) \o <<"_">> \o resource

SynthesizedName(operation) ==
    FriendlyNameFor(toUpperCase(operation.method),
                    extractResourceName(operation.path),
                    includes(operation.path, <<"{">>),
                    extractActionFromPath(operation.path))

\* A slip: the author's identifier sanitized, as the tools were named before the
\* friendly names, instead of converted to snake_case.
generateFriendlyToolName_SanitizedId(operation) ==
    IF ~isAutoGenerated(operation)
    THEN sanitizeToolName(operation.operationId)
    ELSE sanitizeToolName(SynthesizedName(operation))

generateFriendlyToolName(operation) ==
    IF ~isAutoGenerated(operation)
    THEN camelToSnakeCase(operation.operationId)
    ELSE sanitizeToolName(SynthesizedName(operation))

(***************************************************************************)
(* generateUniqueToolName                                                  *)
(***************************************************************************)
\* The number of digits in s from index `from` on, up to the first non-digit.
RECURSIVE DigitRun(_, _)
DigitRun(s, from) == IF from <= Len(s) /\ s[from] \in Digit THEN 1 + DigitRun(s, from + 1) ELSE 0

\* The end of a match of /\/(v\d+(?:\.\d+)?)\//i that starts at the '/' at index
\* i: the index of the closing '/', 0 when there is no match at i.
VersionMatchEnd(s, i) ==
    LET d1 == DigitRun(s, i + 2)
        k  == i + 2 + d1
        d2 == DigitRun(s, k + 1)
    IN  IF ~(i + 2 <= Len(s) /\ s[i] = "/" /\ s[i + 1] \in {"v", "V"} /\ d1 >= 1 /\ k <= Len(s)) THEN 0
        ELSE IF s[k] = "/" THEN k
        ELSE IF s[k] = "." /\ d2 >= 1 /\ k + 1 + d2 <= Len(s) /\ s[k + 1 + d2] = "/" THEN k + 1 + d2
        ELSE 0

extractVersionFromPath(path) ==
    IF \E i \in 1..Len(path) : VersionMatchEnd(path, i) # 0
    THEN LET i == CHOOSE i \in 1..Len(path) :
                      VersionMatchEnd(path, i) # 0 /\ \A j \in 1..(i - 1) : VersionMatchEnd(path, j) = 0
         IN  toLowerCase(SubSeq(path, i + 1, VersionMatchEnd(path, i) - 1))
    ELSE null

extractUniquePathSegments(path) ==
    mapToLowerCase(SelectSeq(split(path, "/"),
                             LAMBDA segment :
                                 LET lower == toLowerCase(segment)
                                 IN  /\ Len(segment) > 0
                                     /\ ~startsWith(segment, <<"{">>)
                                     /\ lower # <<"a","p","i">>
                                     /\ lower # <<"a","p","i","s">>
                                     /\ ~IsBareVersion(lower)))

\* baseName.split('_').pop().
LastUnderscoreSegment(baseName) == LET parts == split(baseName, "_") IN parts[Len(parts)]

\* A slip: the first camelCase word of the new operationId taken, not the last.
OperationIdSuffix_FirstWord(baseName, operation, existingOperation) ==
    LET operationIdParts == splitCamelCase(operation.operationId)
        uniquePart       == operationIdParts[1]
    IN  IF /\ operation.operationId # <<>>
           /\ existingOperation.operationId # <<>>
           /\ operation.operationId # existingOperation.operationId
           /\ uniquePart # <<>>
           /\ uniquePart # LastUnderscoreSegment(baseName)
        THEN uniquePart
        ELSE null

\* Strategy 2: the last camelCase word of the new operationId, null when the
\* strategy does not apply.
OperationIdSuffix(baseName, operation, existingOperation) ==
    LET operationIdParts == splitCamelCase(operation.operationId)
        uniquePart       == operationIdParts[Len(operationIdParts)]
    IN  IF /\ operation.operationId # <<>>
           /\ existingOperation.operationId # <<>>
           /\ operation.operationId # existingOperation.operationId
           /\ uniquePart # <<>>
           /\ uniquePart # LastUnderscoreSegment(baseName)
        THEN uniquePart
        ELSE null

\* A slip: the last segment of the new path that the existing path lacks taken,
\* not the first.
PathSegmentSuffix_LastSegment(baseName, operation, existingOperation) ==
    LET segments         == extractUniquePathSegments(operation.path)
        existingSegments == extractUniquePathSegments(existingOperation.path)
        unique           == {i \in 1..Len(segments) :
                                /\ ~arrayIncludes(existingSegments, segments[i])
                                /\ segments[i] # LastUnderscoreSegment(baseName)}
    IN  IF unique = {} THEN null
        ELSE segments[CHOOSE i \in unique : \A j \in unique : j <= i]

\* Strategy 3: the first segment of the new path that the existing path lacks and
\* that is not the base name's last part, null when there is none.
PathSegmentSuffix(baseName, operation, existingOperation) ==
    LET segments         == extractUniquePathSegments(operation.path)
        existingSegments == extractUniquePathSegments(existingOperation.path)
    IN  FirstWhere(segments,
                   [i \in 1..Len(segments) |->
                       /\ ~arrayIncludes(existingSegments, segments[i])
                       /\ segments[i] # LastUnderscoreSegment(baseName)])

\* A slip: the version appended only when the two versions differ.
VersionSuffix_OnlyWhenDifferent(operation, existingOperation) ==
    LET version         == extractVersionFromPath(operation.path)
        existingVersion == extractVersionFromPath(existingOperation.path)
    IN  IF version # null /\ existingVersion # null /\ version # existingVersion THEN version
        ELSE null

\* Strategy 1: the version of the new path, null when it has none.
VersionSuffix(operation, existingOperation) ==
    LET version         == extractVersionFromPath(operation.path)
        existingVersion == extractVersionFromPath(existingOperation.path)
    IN  IF version # null /\ existingVersion # null /\ version # existingVersion THEN version
        ELSE IF version # null THEN version
        ELSE null

\* A slip: 'alt' appended whenever no path segment tells the operations apart,
\* whether or not the paths differ.
PathOrMethodSuffix_AlwaysAlt(baseName, operation, existingOperation) ==
    IF PathSegmentSuffix(baseName, operation, existingOperation) # null
    THEN PathSegmentSuffix(baseName, operation, existingOperation)
    ELSE <<"a","l","t">>

\* A resolver whose last resort appends nothing after the underscore.
PathOrMethodSuffix_NoFallback(baseName, operation, existingOperation) ==
    IF PathSegmentSuffix(baseName, operation, existingOperation) # null
    THEN PathSegmentSuffix(baseName, operation, existingOperation)
    ELSE IF operation.path # existingOperation.path
    THEN toLowerCase(operation.method)
    ELSE <<>>

\* Strategies 3 to 5: a unique path segment, else the method, else 'alt'.
PathOrMethodSuffix(baseName, operation, existingOperation) ==
    IF PathSegmentSuffix(baseName, operation, existingOperation) # null
    THEN PathSegmentSuffix(baseName, operation, existingOperation)
    ELSE IF operation.path # existingOperation.path
    THEN toLowerCase(operation.method)
    ELSE <<"a","l","t">>

generateUniqueToolName(baseName, operation, existingOperation) ==
    IF VersionSuffix(operation, existingOperation) # null
    THEN baseName \o <<"_">> \o VersionSuffix(operation, existingOperation)
    ELSE IF OperationIdSuffix(baseName, operation, existingOperation) # null
    THEN baseName \o <<"_">> \o OperationIdSuffix(baseName, operation, existingOperation)
    ELSE baseName \o <<"_">> \o PathOrMethodSuffix(baseName, operation, existingOperation)

(***************************************************************************)
(* Checking the sanitizer: the caller passes any string over a small       *)
(* alphabet that holds a letter of each case, a digit, an underscore and a *)
(* character outside [a-zA-Z0-9_].                                         *)
(***************************************************************************)
MaxLen == 4

SanitizeAlphabet == {"a", "Z", "7", "_", "-"}

RawStrings == UNION {[1..k -> SanitizeAlphabet] : k \in 0..MaxLen}

\* No generation pass is running.
PassIdle == operations = <<>> /\ registered = <<>>

InitSanitize ==
    /\ pc = "call"
    /\ arg \in {[fn |-> "sanitizeToolName", raw |-> s] : s \in RawStrings}
    /\ ret = <<>>
    /\ PassIdle
    /\ ServerIdle

CallSanitize ==
    /\ pc = "call"
    /\ arg.fn = "sanitizeToolName"
    /\ ret' = sanitizeToolName(arg.raw)
    /\ pc' = "done"
    /\ UNCHANGED <<arg, operations, registered, serverVars>>

\* The caller sanitizes the name it got once more.
CallSanitizeAgain ==
    /\ pc = "done"
    /\ arg.fn = "sanitizeToolName"
    /\ arg.raw # ret
    /\ arg' = [arg EXCEPT !.raw = ret]
    /\ ret' = sanitizeToolName(ret)
    /\ UNCHANGED <<pc, operations, registered, serverVars>>

NextSanitize == CallSanitize \/ CallSanitizeAgain

SpecSanitize == InitSanitize /\ [][NextSanitize]_vars

\* A valid tool name: a non-empty string matching [a-z][a-z0-9_]*.
ValidToolName(s) ==
    /\ Len(s) > 0
    /\ s[1] \in Lower
    /\ \A i \in 1..Len(s) : s[i] \in Lower \cup Digit \cup {"_"}

\* C3: sanitizeToolName is idempotent: sanitizing a name the sanitizer returned
\* gives that name back, and a second call through the caller leaves it unchanged.
C3_SanitizeIdempotent ==
    (pc = "done" /\ arg.fn = "sanitizeToolName") => sanitizeToolName(ret) = ret

\* A call whose input was changed by the sanitizer in every step (underscores
\* stripped, a leading digit prefixed, an upper-case letter lowered).
C3_Witness ==
    /\ pc = "done"
    /\ arg.fn = "sanitizeToolName"
    /\ arg.raw = <<"_", "7", "Z", "-">>
    /\ ret = <<"a", "p", "i", "_", "7", "z">>

\* The sanitizer's result stated position by position: every character outside
\* [a-zA-Z0-9_] becomes '_', the part from the first to the last character that is
\* not '_' is kept, 'api_' goes in front of a leading digit, all lower-cased.
SanitizedForm(x) ==
    LET mapped == [i \in 1..Len(x) |-> IF x[i] \in WordChar THEN x[i] ELSE "_"]
        keep   == {i \in 1..Len(x) : mapped[i] # "_"}
        first  == CHOOSE i \in keep : \A j \in keep : i <= j
        last   == CHOOSE i \in keep : \A j \in keep : j <= i
        core   == IF keep = {} THEN <<>> ELSE SubSeq(mapped, first, last)
        pre    == IF core # <<>> /\ core[1] \in Digit THEN <<"a","p","i","_">> ELSE <<>>
    IN  [i \in 1..(Len(pre) + Len(core)) |->
            LET c == IF i <= Len(pre) THEN pre[i] ELSE core[i - Len(pre)]
            IN  IF c \in Upper THEN LowerOf[c] ELSE c]

\* C4: sanitizeToolName returns the input with every character outside
\* [a-zA-Z0-9_] replaced by '_', leading and trailing underscores stripped, 'api_'
\* prepended to a leading digit, lower-cased; the result is empty or a valid name.
C4_SanitizeResult ==
    (pc = "done" /\ arg.fn = "sanitizeToolName") =>
        /\ ret = SanitizedForm(arg.raw)
        /\ (ret = <<>> \/ ValidToolName(ret))

\* A fully symbolic input sanitizes to the empty string, and an input starting
\* with a digit gets the prefix.
C4_Witness ==
    /\ pc = "done"
    /\ arg.fn = "sanitizeToolName"
    /\ arg.raw = <<"7", "-", "Z">>
    /\ ret = <<"a", "p", "i", "_", "7", "_", "z">>

(***************************************************************************)
(* Checking the name synthesizer: the caller passes one operation of a     *)
(* document.  Methods are upper-case, as OpenApiService.getOperations      *)
(* stores them; paths are built from a vocabulary of segments.             *)
(***************************************************************************)
MaxSegments == 3

\* '/' + segments.join('/'): the path template made of the given segments.
PathOf(segments) == <<"/">> \o join(segments, <<"/">>)

PathsOver(vocabulary, n) == {PathOf(p) : p \in UNION {[1..k -> vocabulary] : k \in 1..n}}

Methods == {<<"G","E","T">>, <<"P","O","S","T">>, <<"P","U","T">>, <<"P","A","T","C","H">>, <<"D","E","L","E","T","E">>, <<"O","P","T","I","O","N","S">>}

FriendlySegments ==
    {<<"u","s","e","r","s">>,
     <<"{","i","d","}">>,
     <<"s","e","a","r","c","h">>,
     <<"a","c","t","i","v","a","t","e">>,
     <<"c","a","l","c","u","l","a","t","e">>,
     <<"e","m","a","i","l","s">>,
     <<"a","p","i">>,
     <<"v","1">>}

\* Identifiers with the method_path shape getOperations generates, or none.
AutoGeneratedIds ==
    {<<>>,
     <<"p","o","s","t","_","a","p","i","_","v","1","_","u","s","e","r","s">>}

\* Identifiers an author wrote.
AuthorIds ==
    {<<"o","p","e","r","a","t","i","o","n","1","2","3">>,
     <<"g","e","t","U","s","e","r","B","y","I","d">>,
     <<"s","e","a","r","c","h","A","c","t","i","v","e","U","s","e","r","s">>,
     <<"g","e","t","-","u","s","e","r","-","-","P","r","o","f","i","l","e","_">>,
     <<"X","M","L","P","a","r","s","e","r","2","G","o">>,
     <<"u","s","e","r","s",".","l","i","s","t">>}

AuthorIdPaths ==
    {<<"/","u","s","e","r","s","/","{","i","d","}">>,
     <<"/","u","s","e","r","s","/","s","e","a","r","c","h">>,
     <<"/","c","a","l","c","u","l","a","t","e">>}

FriendlyOperations ==
    {[operationId |-> id, method |-> m, path |-> p] :
        id \in AutoGeneratedIds, m \in Methods, p \in PathsOver(FriendlySegments, MaxSegments)}
    \cup
    {[operationId |-> id, method |-> m, path |-> p] :
        id \in AuthorIds, m \in Methods, p \in AuthorIdPaths}

InitFriendly ==
    /\ pc = "call"
    /\ arg \in {[fn |-> "generateFriendlyToolName", operation |-> op] : op \in FriendlyOperations}
    /\ ret = <<>>
    /\ PassIdle
    /\ ServerIdle

CallFriendly ==
    /\ pc = "call"
    /\ arg.fn = "generateFriendlyToolName"
    /\ ret' = generateFriendlyToolName(arg.operation)
    /\ pc' = "done"
    /\ UNCHANGED <<arg, operations, registered, serverVars>>

NextFriendly == CallFriendly

SpecFriendly == InitFriendly /\ [][NextFriendly]_vars

(***************************************************************************)
(* Claims about generateFriendlyToolName.                                  *)
(***************************************************************************)
FriendlyDone == pc = "done" /\ arg.fn = "generateFriendlyToolName"

\* "Looks auto-generated", as the claims word it: the identifier starts, in any
\* letter case, with '<method>_', or contains 'api_v', or its lower-case form
\* matches ^(get|post|put|patch|delete)_.*_ .
LooksAutoGenerated(operation) ==
    LET id == operation.operationId
    IN  \/ startsWith(toLowerCase(id), toLowerCase(operation.method) \o <<"_">>)
        \/ \E i \in 1..(Len(id) - 4) : SubSeq(id, i, i + 4) = <<"a","p","i","_","v">>
        \/ \E verb \in CrudVerbs :
               /\ startsWith(toLowerCase(id), verb \o <<"_">>)
               /\ \E i \in (Len(verb) + 2)..Len(id) : id[i] = "_"

\* C5: the identifier 'operation123' is not treated as manually created: the name
\* is the one synthesized from method and path, not the identifier's snake_case.
C5_Operation123FallsThrough ==
    (FriendlyDone /\ arg.operation.operationId = <<"o","p","e","r","a","t","i","o","n","1","2","3">>) =>
        /\ ret = sanitizeToolName(SynthesizedName(arg.operation))
        /\ ((arg.operation.method = <<"G","E","T">> /\ arg.operation.path = <<"/","u","s","e","r","s","/","{","i","d","}">>)
                => ret = <<"g","e","t","_","u","s","e","r">>)

\* The snake_case form of an identifier, stated position by position: hyphens are
\* underscores, an underscore stands before every upper-case letter that follows
\* a lower-case letter or a digit, letters are lower-cased, of a run of
\* underscores the first is kept, and only between two other characters.
SnakeForm(id) ==
    LET h         == [i \in 1..Len(id) |-> IF id[i] = "-" THEN "_" ELSE id[i]]
        ins(i)    == i > 1 /\ h[i - 1] \in Lower \cup Digit /\ h[i] \in Upper
        before(i) == Cardinality({j \in 1..i : ins(j)})
        n         == Len(h) + before(Len(h))
        expanded  == [k \in 1..n |->
                         IF \E i \in 1..Len(h) : k = i + before(i)
                         THEN LET c == h[CHOOSE i \in 1..Len(h) : k = i + before(i)]
                              IN  IF c \in Upper THEN LowerOf[c] ELSE c
                         ELSE "_"]
        kept      == {k \in 1..n :
                         \/ expanded[k] # "_"
                         \/ /\ k > 1 /\ expanded[k - 1] # "_"
                            /\ \E m \in (k + 1)..n : expanded[m] # "_"}
    IN  [r \in 1..Cardinality(kept) |->
            expanded[CHOOSE k \in kept : Cardinality({j \in kept : j <= k}) = r]]

HasParameterSegment(path) ==
    \E i \in 1..Len(split(path, "/")) :
        LET seg == split(path, "/")[i] IN Len(seg) >= 2 /\ seg[1] = "{" /\ seg[Len(seg)] = "}"

\* The verb the claims give a method other than POST (before the resource), and
\* what follows the resource.
CrudPrefix(operation) ==
    CASE operation.method = <<"G","E","T">> ->
            IF HasParameterSegment(operation.path) THEN <<"g","e","t">> ELSE <<"l","i","s","t">>
      [] operation.method = <<"P","U","T">> -> <<"u","p","d","a","t","e">>
      [] operation.method = <<"P","A","T","C","H">> -> <<"p","a","t","c","h">>
      [] operation.method = <<"D","E","L","E","T","E">> -> <<"d","e","l","e","t","e">>
      [] OTHER -> toLowerCase(operation.method)

CrudPlural(operation) ==
    IF operation.method = <<"G","E","T">> /\ ~HasParameterSegment(operation.path) THEN <<"s">> ELSE <<>>

SynthesisCase(operation) == operation.operationId = <<>> \/ LooksAutoGenerated(operation)

NameOf(method, path) ==
    IF FriendlyDone /\ arg.operation.operationId = <<>>
       /\ arg.operation.method = method /\ arg.operation.path = path
    THEN ret ELSE <<>>

\* C7: for a method other than POST and an identifier that is empty or looks
\* auto-generated, the name is sanitize(prefix_resource): get_/list_..s for GET
\* with/without a path parameter, update_ for PUT, patch_ for PATCH, delete_ for
\* DELETE, the lower-cased method otherwise.
C7_NonPostSynthesis ==
    /\ (FriendlyDone /\ SynthesisCase(arg.operation) /\ arg.operation.method # <<"P","O","S","T">>) =>
           ret = sanitizeToolName(CrudPrefix(arg.operation) \o <<"_">>
                                  \o extractResourceName(arg.operation.path)
                                  \o CrudPlural(arg.operation))
    /\ NameOf(<<"G","E","T">>, <<"/","u","s","e","r","s","/","{","i","d","}">>) \in {<<>>, <<"g","e","t","_","u","s","e","r">>}
    /\ NameOf(<<"G","E","T">>, <<"/","u","s","e","r","s">>) \in {<<>>, <<"l","i","s","t","_","u","s","e","r","s">>}
    /\ NameOf(<<"P","U","T">>, <<"/","u","s","e","r","s","/","{","i","d","}">>) \in {<<>>, <<"u","p","d","a","t","e","_","u","s","e","r">>}
    /\ NameOf(<<"D","E","L","E","T","E">>, <<"/","u","s","e","r","s","/","{","i","d","}">>) \in {<<>>, <<"d","e","l","e","t","e","_","u","s","e","r">>}

\* PUT /api/v1/users with an auto-generated identifier is named update_user.
C7_Witness ==
    /\ FriendlyDone
    /\ arg.operation = [operationId |-> <<"p","o","s","t","_","a","p","i","_","v","1","_","u","s","e","r","s">>, method |-> <<"P","U","T">>, path |-> <<"/","a","p","i","/","v","1","/","u","s","e","r","s">>]
    /\ ret = <<"u","p","d","a","t","e","_","u","s","e","r">>

\* The path is '/<resource>': one segment that is neither a path parameter nor an
\* action word.
IsResourcePath(path) ==
    LET segs == split(path, "/")
    IN  /\ Len(segs) = 2
        /\ Len(segs[2]) > 0
        /\ segs[2][1] # "{"
        /\ ~IsActionWord(toLowerCase(segs[2]))

\* C8: a POST whose identifier is empty or looks auto-generated is named
\* create_<resource> when the path has no action word, so that POST /<resource>
\* is always create_<resource>; <action>_<resource> when it has one; the action
\* alone when the resource equals the action.
C8_PostSynthesis ==
    (FriendlyDone /\ SynthesisCase(arg.operation) /\ arg.operation.method = <<"P","O","S","T">>) =>
        LET action   == extractActionFromPath(arg.operation.path)
            resource == extractResourceName(arg.operation.path)
        IN  /\ action = null => ret = <<"c","r","e","a","t","e","_">> \o resource
            /\ (action # null /\ resource # action) => ret = action \o <<"_">> \o resource
            /\ (action # null /\ resource = action) => ret = action
            /\ IsResourcePath(arg.operation.path) => ret = <<"c","r","e","a","t","e","_">> \o resource

(***************************************************************************)
(* Checking the collision resolver: the caller passes a base name, the new *)
(* operation and the operation already registered under the base name.     *)
(* generateUniqueToolName never reads the existing operation's method.     *)
(***************************************************************************)
MaxNewSegments == 2

UniqueSegments ==
    {<<"v","1">>,
     <<"V","2">>,
     <<"v","1",".","5">>,
     <<"u","s","e","r","s">>,
     <<"{","i","d","}">>,
     <<"a","d","m","i","n">>}

BaseNames ==
    {<<"g","e","t","_","u","s","e","r">>,
     <<"g","e","t","_","u","s","e","r","_","d","e","t","a","i","l","s">>}

NewOperationIds ==
    {<<>>,
     <<"g","e","t","U","s","e","r">>,
     <<"g","e","t","U","s","e","r","D","e","t","a","i","l","s">>,
     <<"g","e","t","U","s","e","r"," ">>}

ExistingOperationIds ==
    {<<>>,
     <<"g","e","t","U","s","e","r">>,
     <<"f","e","t","c","h","U","s","e","r">>}

ExistingPaths ==
    {<<"/","u","s","e","r","s","/","{","i","d","}">>,
     <<"/","v","1","/","u","s","e","r","s">>,
     <<"/","a","d","m","i","n","/","u","s","e","r","s">>}

NewOperations ==
    {[operationId |-> id, method |-> m, path |-> p] :
        id \in NewOperationIds,
        m \in {<<"G","E","T">>, <<"D","E","L","E","T","E">>},
        p \in PathsOver(UniqueSegments, MaxNewSegments)}

ExistingOperations ==
    {[operationId |-> id, method |-> <<"G","E","T">>, path |-> p] :
        id \in ExistingOperationIds, p \in ExistingPaths}

InitUnique ==
    /\ pc = "call"
    /\ arg \in {[fn |-> "generateUniqueToolName", baseName |-> b, operation |-> op, existingOperation |-> ex] :
                    b \in BaseNames, op \in NewOperations, ex \in ExistingOperations}
    /\ ret = <<>>
    /\ PassIdle
    /\ ServerIdle

CallUnique ==
    /\ pc = "call"
    /\ arg.fn = "generateUniqueToolName"
    /\ ret' = generateUniqueToolName(arg.baseName, arg.operation, arg.existingOperation)
    /\ pc' = "done"
    /\ UNCHANGED <<arg, operations, registered, serverVars>>

NextUnique == CallUnique

SpecUnique == InitUnique /\ [][NextUnique]_vars

(***************************************************************************)
(* Claims about generateUniqueToolName.                                    *)
(***************************************************************************)
UniqueDone == pc = "done" /\ arg.fn = "generateUniqueToolName"

\* A version segment: v or V, digits, and possibly a dot and digits.
IsVersionSegment(seg) ==
    /\ Len(seg) >= 2
    /\ seg[1] \in {"v", "V"}
    /\ seg[2] \in Digit
    /\ seg[Len(seg)] \in Digit
    /\ \A i \in 2..Len(seg) : seg[i] \in Digit \cup {"."}
    /\ Cardinality({i \in 2..Len(seg) : seg[i] = "."}) <= 1

\* The indices of the version segments of a path that have a slash on both sides.
VersionSegmentsOf(path) ==
    {i \in 2..(Len(split(path, "/")) - 1) : IsVersionSegment(split(path, "/")[i])}

\* C9: when the new path has a version segment vN or vN.M between slashes, in
\* any letter case, the result is baseName_<version in lower case>, whatever the
\* existing operation's version, the identifiers, the other segments, the method.
C9_VersionFirst ==
    (UniqueDone /\ VersionSegmentsOf(arg.operation.path) # {}) =>
        LET segs == split(arg.operation.path, "/")
            i    == CHOOSE i \in VersionSegmentsOf(arg.operation.path) :
                        \A j \in VersionSegmentsOf(arg.operation.path) : i <= j
        IN  ret = arg.baseName \o <<"_">> \o toLowerCase(segs[i])

\* The new path and the existing path carry the same version, the identifiers
\* differ and the new path has a segment of its own: the version is appended.
C9_Witness ==
    /\ UniqueDone
    /\ arg.baseName = <<"g","e","t","_","u","s","e","r">>
    /\ arg.operation = [operationId |-> <<"g","e","t","U","s","e","r","D","e","t","a","i","l","s">>, method |-> <<"G","E","T">>, path |-> <<"/","v","1","/","a","d","m","i","n">>]
    /\ arg.existingOperation = [operationId |-> <<"g","e","t","U","s","e","r">>, method |-> <<"G","E","T">>, path |-> <<"/","v","1","/","u","s","e","r","s">>]
    /\ ret = <<"g","e","t","_","u","s","e","r","_","v","1">>

\* The last camelCase token of the new identifier, lower-cased.
LastIdToken(operation) ==
    LET tokens == splitCamelCase(operation.operationId) IN tokens[Len(tokens)]

IdStrategyCase ==
    /\ UniqueDone
    /\ VersionSegmentsOf(arg.operation.path) = {}
    /\ arg.operation.operationId # <<>>
    /\ arg.existingOperation.operationId # <<>>
    /\ arg.operation.operationId # arg.existingOperation.operationId

LaterStrategyNames ==
    {arg.baseName \o <<"_">> \o seg : seg \in {extractUniquePathSegments(arg.operation.path)[i] :
                                                   i \in 1..Len(extractUniquePathSegments(arg.operation.path))}}
    \cup {arg.baseName \o <<"_">> \o toLowerCase(arg.operation.method), arg.baseName \o <<"_","a","l","t">>}

\* C10 as claimed: with no version in the new path and two non-empty, different
\* identifiers, a last token that differs from the base name's last part is
\* appended, even when the new path has a segment of its own; otherwise the
\* strategy is skipped.
C10_IdentifierFragment_AsClaimed ==
    /\ (IdStrategyCase /\ LastIdToken(arg.operation) # LastUnderscoreSegment(arg.baseName)) =>
           ret = arg.baseName \o <<"_">> \o LastIdToken(arg.operation)
    /\ (UniqueDone /\ VersionSegmentsOf(arg.operation.path) = {}
        /\ (~IdStrategyCase \/ LastIdToken(arg.operation) = LastUnderscoreSegment(arg.baseName))) =>
           ret \in LaterStrategyNames

\* C10, amended: the token is appended if it is non-empty and differs from the
\* base name's last part; an empty token (an identifier ending in white space)
\* skips the strategy too.
C10_IdentifierFragment ==
    /\ (IdStrategyCase /\ LastIdToken(arg.operation) # <<>>
        /\ LastIdToken(arg.operation) # LastUnderscoreSegment(arg.baseName)) =>
           ret = arg.baseName \o <<"_">> \o LastIdToken(arg.operation)
    /\ (UniqueDone /\ VersionSegmentsOf(arg.operation.path) = {}
        /\ (\/ ~IdStrategyCase
            \/ LastIdToken(arg.operation) = <<>>
            \/ LastIdToken(arg.operation) = LastUnderscoreSegment(arg.baseName))) =>
           ret \in LaterStrategyNames

\* The identifier's last token is appended although the new path has the segment
\* 'admin', which the existing path lacks.
C10_Witness ==
    /\ UniqueDone
    /\ arg.baseName = <<"g","e","t","_","u","s","e","r">>
    /\ arg.operation = [operationId |-> <<"g","e","t","U","s","e","r","D","e","t","a","i","l","s">>, method |-> <<"G","E","T">>, path |-> <<"/","a","d","m","i","n","/","u","s","e","r","s">>]
    /\ arg.existingOperation = [operationId |-> <<"g","e","t","U","s","e","r">>, method |-> <<"G","E","T">>, path |-> <<"/","u","s","e","r","s","/","{","i","d","}">>]
    /\ ret = <<"g","e","t","_","u","s","e","r","_","d","e","t","a","i","l","s">>

\* The tokens of a path as the claims give them: the segments in path order,
\* lower-cased, without the empty ones, the path parameters, 'api', 'apis' and
\* the bare versions vN.
PathTokens(path) ==
    LET segs == split(path, "/")
        kept == SelectSeq([i \in 1..Len(segs) |-> i],
                          LAMBDA i :
                              /\ segs[i] # <<>>
                              /\ segs[i][1] # "{"
                              /\ toLowerCase(segs[i]) \notin {<<"a","p","i">>, <<"a","p","i","s">>}
                              /\ ~(IsVersionSegment(segs[i]) /\ \A k \in 1..Len(segs[i]) : segs[i][k] # "."))
    IN  [k \in 1..Len(kept) |-> toLowerCase(segs[kept[k]])]

\* Neither the version strategy nor the identifier strategy applies.
PathStrategyCase ==
    /\ UniqueDone
    /\ VersionSegmentsOf(arg.operation.path) = {}
    /\ \/ ~IdStrategyCase
       \/ LastIdToken(arg.operation) = <<>>
       \/ LastIdToken(arg.operation) = LastUnderscoreSegment(arg.baseName)

\* The positions of the new path's tokens that the existing path lacks and that
\* differ from the base name's last part.
UniqueTokenPositions ==
    {i \in 1..Len(PathTokens(arg.operation.path)) :
        /\ \A j \in 1..Len(PathTokens(arg.existingOperation.path)) :
               PathTokens(arg.existingOperation.path)[j] # PathTokens(arg.operation.path)[i]
        /\ PathTokens(arg.operation.path)[i] # LastUnderscoreSegment(arg.baseName)}

C2_NamesAreValid ==
    /\ (FriendlyDone
        /\ sanitizeToolName(arg.operation.operationId) # <<>>
        /\ sanitizeToolName(arg.operation.path) # <<>>) => ValidToolName(ret)
    /\ (UniqueDone
        /\ ValidToolName(arg.baseName)
        /\ sanitizeToolName(arg.operation.operationId) # <<>>
        /\ sanitizeToolName(arg.operation.path) # <<>>) => ValidToolName(ret)

(***************************************************************************)
(* The generation pass: the operations of one document are named in        *)
(* declaration order.  An operation gets its friendly name if no operation *)
(* is registered under it yet, and otherwise the name the collision        *)
(* resolver makes from the friendly name, the operation and the operation  *)
(* registered under the friendly name.  A document holds one operation per *)
(* method and path.                                                        *)
(***************************************************************************)
MaxOperations == 3

PassPaths ==
    {<<"/","u","s","e","r","s","/","{","i","d","}">>,
     <<"/","v","1","/","u","s","e","r","s","/","{","i","d","}">>,
     <<"/","v","1","/","a","d","m","i","n","/","u","s","e","r","s","/","{","i","d","}">>,
     <<"/","a","d","m","i","n","/","u","s","e","r","s","/","{","i","d","}">>}

PassOperations ==
    {[operationId |-> id, method |-> m, path |-> p] :
        id \in {<<>>, <<"g","e","t","U","s","e","r">>},
        m \in {<<"G","E","T">>, <<"D","E","L","E","T","E">>},
        p \in PassPaths}
    \cup {[operationId |-> <<"g","e","t","U","s","e","r","V","1">>,
           method |-> <<"G","E","T">>,
           path |-> <<"/","a","d","m","i","n","/","u","s","e","r","s","/","{","i","d","}">>]}

Documents ==
    {d \in UNION {[1..k -> PassOperations] : k \in 1..MaxOperations} :
        \A i, j \in 1..Len(d) :
            (d[i].method = d[j].method /\ d[i].path = d[j].path) => i = j}

\* The names registered so far.
RegisteredNames == {registered[i].name : i \in 1..Len(registered)}

\* The operation registered under a name (the first, if there are several).
RegisteredUnder(name) ==
    registered[CHOOSE i \in 1..Len(registered) :
                   /\ registered[i].name = name
                   /\ \A j \in 1..(i - 1) : registered[j].name # name].op

\* The name the pass gives an operation, the registrations being as they are.
PassName(operation) ==
    LET baseName == generateFriendlyToolName(operation)
    IN  IF baseName \notin RegisteredNames
        THEN baseName
        ELSE generateUniqueToolName(baseName, operation, RegisteredUnder(baseName))

Init ==
    /\ pc = "pass"
    /\ arg = [fn |-> "pass"]
    /\ ret = <<>>
    /\ operations \in Documents
    /\ registered = <<>>
    /\ ServerIdle

RegisterNext ==
    /\ pc = "pass"
    /\ Len(registered) < Len(operations)
    /\ LET operation == operations[Len(registered) + 1]
       IN  registered' = Append(registered, [name |-> PassName(operation), op |-> operation])
    /\ UNCHANGED <<pc, arg, ret, operations, serverVars>>

Next == RegisterNext

Spec == Init /\ [][Next]_vars

\* C1: in one pass no two operations are registered under the same tool name.
C1_UniqueToolNames ==
    \A i, j \in 1..Len(registered) :
        i # j => registered[i].name # registered[j].name

\* C13: the first operation of the pass that synthesizes a base name is
\* registered under exactly that base name, and only later operations with the
\* same base name get a suffix.
C13_FirstKeepsBaseName ==
    \A i \in 1..Len(registered) :
        LET baseName == generateFriendlyToolName(registered[i].op)
        IN  IF \A j \in 1..(i - 1) : generateFriendlyToolName(registered[j].op) # baseName
            THEN registered[i].name = baseName
            ELSE registered[i].name # baseName

(***************************************************************************)
(* The rate limiter (class RateLimiter): a sliding window over the         *)
(* timestamps of the requests it allowed.  checkLimit and getStats have no *)
(* await in their bodies, so each runs as one step.                        *)
(***************************************************************************)
MsPerSecond == 1000

\* The clock of the model advances in steps of half a second.
TickMs == MsPerSecond \div 2

\* What JavaScript computes from requests[0] when the array is empty.
NaN == "NaN"

\* A slip: a request exactly windowMs old still counted.
WithinWindow_Inclusive(timestamps, at, windowMs) ==
    SelectSeq(timestamps, LAMBDA timestamp : at - timestamp <= windowMs)

\* this.requests.filter((timestamp) => now - timestamp < this.windowMs)
WithinWindow(timestamps, at, windowMs) ==
    SelectSeq(timestamps, LAMBDA timestamp : at - timestamp < windowMs)

\* A slip: one request more than maxRequests let through.
UnderLimit_Inclusive(kept, maxRequests) == Len(kept) <= maxRequests

\* this.requests.length < this.maxRequests
UnderLimit(kept, maxRequests) == Len(kept) < maxRequests

\* Math.ceil(x / d) for integers x and d > 0.
ceil(x, d) == -((-x) \div d)

\* A slip: the seconds rounded down.
RetryAfter_Floor(kept, at, windowMs) ==
    IF kept = <<>> THEN NaN ELSE (kept[1] + windowMs - at) \div MsPerSecond

\* Math.ceil((oldestRequest + this.windowMs - now) / 1000), oldestRequest being
\* this.requests[0].
RetryAfter(kept, at, windowMs) ==
    IF kept = <<>> THEN NaN ELSE ceil(kept[1] + windowMs - at, MsPerSecond)

\* A slip: the timestamp pushed before the limit is tested, so that a denied
\* call is recorded too.
checkLimitRequests_RecordsDenied(timestamps, at, config) ==
    Append(WithinWindow(timestamps, at, config.windowMs), at)

\* this.requests after checkLimit ran at time 'at'.
checkLimitRequests(timestamps, at, config) ==
    LET kept == WithinWindow(timestamps, at, config.windowMs)
    IN  IF UnderLimit(kept, config.maxRequests) THEN Append(kept, at) ELSE kept

\* What checkLimit returns at time 'at'.
checkLimit(timestamps, at, config) ==
    LET kept == WithinWindow(timestamps, at, config.windowMs)
    IN  IF UnderLimit(kept, config.maxRequests)
        THEN [allowed |-> TRUE]
        ELSE [allowed |-> FALSE, retryAfter |-> RetryAfter(kept, at, config.windowMs)]

\* What getStats returns at time 'at'.
getStats(timestamps, at, config) ==
    [currentRequests |-> Len(WithinWindow(timestamps, at, config.windowMs)),
     maxRequests     |-> config.maxRequests,
     windowMs        |-> config.windowMs]

(***************************************************************************)
(* Checking the limiter on its own: a limiter is constructed with a limit  *)
(* and a window, and checkLimit, getStats and reset are called while the   *)
(* clock advances.  RATE_LIMIT_REQUESTS=0 is a configuration the server    *)
(* accepts (config.ts parses it with parseInt), so the limit 0 is tried.   *)
(***************************************************************************)
MaxTicks == 4

MaxCalls == 4

MaxRequestsLimit == 2

WindowSizes == {MsPerSecond, MsPerSecond + TickMs}

LimiterConfigs ==
    {[enabled |-> TRUE, maxRequests |-> m, windowMs |-> w] :
        m \in 0..MaxRequestsLimit, w \in WindowSizes}

InitLimiter ==
    /\ pc = "limiter"
    /\ arg = [fn |-> "constructor"]
    /\ ret = <<>>
    /\ PassIdle
    /\ now = 0
    /\ requests = <<>>
    /\ calls = <<>>
    /\ RATE_LIMIT_CONFIG \in LimiterConfigs
    /\ services = <<>>
    /\ registeredOperationIds = {}
    /\ defaultEnvironment = ""
    /\ definitions = <<>>
    /\ toolOperation = <<>>
    /\ ENVIRONMENT_CONFIG = <<>>
    /\ SessionIdle

CheckLimit ==
    /\ pc = "limiter"
    /\ Len(calls) < MaxCalls
    /\ arg' = [fn |-> "checkLimit"]
    /\ requests' = checkLimitRequests(requests, now, RATE_LIMIT_CONFIG)
    /\ ret' = checkLimit(requests, now, RATE_LIMIT_CONFIG)
    /\ calls' = Append(calls, [at |-> now, allowed |-> checkLimit(requests, now, RATE_LIMIT_CONFIG).allowed])
    /\ UNCHANGED <<pc, namingVars, now, RATE_LIMIT_CONFIG, services, registeredOperationIds, defaultEnvironment, definitions, toolOperation,
                   ENVIRONMENT_CONFIG, sessionVars>>

GetStats ==
    /\ pc = "limiter"
    /\ arg' = [fn |-> "getStats"]
    /\ requests' = WithinWindow(requests, now, RATE_LIMIT_CONFIG.windowMs)
    /\ ret' = getStats(requests, now, RATE_LIMIT_CONFIG)
    /\ UNCHANGED <<pc, namingVars, now, calls, RATE_LIMIT_CONFIG, services, registeredOperationIds, defaultEnvironment, definitions, toolOperation,
                   ENVIRONMENT_CONFIG, sessionVars>>

\* reset() empties the limiter; the history starts over with it.
Reset ==
    /\ pc = "limiter"
    /\ arg' = [fn |-> "reset"]
    /\ requests' = <<>>
    /\ calls' = <<>>
    /\ ret' = <<>>
    /\ UNCHANGED <<pc, namingVars, now, RATE_LIMIT_CONFIG, services, registeredOperationIds, defaultEnvironment, definitions, toolOperation,
                   ENVIRONMENT_CONFIG, sessionVars>>

\* Time passes.
Tick ==
    /\ pc \in {"limiter", "idle", "handling"}
    /\ now < MaxTicks * TickMs
    /\ now' = now + TickMs
    /\ UNCHANGED <<pc, arg, ret, namingVars, requests, calls, RATE_LIMIT_CONFIG, services,
                   registeredOperationIds, defaultEnvironment, definitions, toolOperation,
                   ENVIRONMENT_CONFIG, sessionVars>>

NextLimiter == CheckLimit \/ GetStats \/ Reset \/ Tick

SpecLimiter == InitLimiter /\ [][NextLimiter]_vars

\* The clock never stops.
SpecLimiterLive == SpecLimiter /\ WF_vars(Tick)

(***************************************************************************)
(* Claims about the rate limiter.  The history 'calls' holds the time and  *)
(* the answer of every checkLimit call since the limiter was constructed   *)
(* or reset.                                                               *)
(***************************************************************************)
\* The calls of the history that were allowed.
AllowedCalls == {k \in 1..Len(calls) : calls[k].allowed}

\* C17: with maxRequests >= 1 and no reset, the allowed checkLimit calls whose
\* timestamps lie in an interval shorter than windowMs never number more than
\* maxRequests, and call number maxRequests+1 within one window is denied.
C17_AtMostMaxRequestsPerWindow ==
    RATE_LIMIT_CONFIG.maxRequests >= 1 =>
        /\ \A i \in 1..Len(calls) :
               Cardinality({k \in AllowedCalls :
                               /\ calls[k].at >= calls[i].at
                               /\ calls[k].at - calls[i].at < RATE_LIMIT_CONFIG.windowMs})
                   <= RATE_LIMIT_CONFIG.maxRequests
        /\ \A k \in 1..Len(calls) :
               (/\ k = RATE_LIMIT_CONFIG.maxRequests + 1
                /\ calls[k].at - calls[1].at < RATE_LIMIT_CONFIG.windowMs) => ~calls[k].allowed

\* Two requests allowed, a third denied half a second later, and a fourth allowed
\* once the first is a full window old.
C17_Witness ==
    /\ RATE_LIMIT_CONFIG = [enabled |-> TRUE, maxRequests |-> 2, windowMs |-> MsPerSecond]
    /\ calls = <<[at |-> 0, allowed |-> TRUE], [at |-> 0, allowed |-> TRUE],
                 [at |-> TickMs, allowed |-> FALSE], [at |-> MsPerSecond, allowed |-> TRUE]>>

\* The allowed calls of the history that are less than windowMs old at time t.
CountedAt(t, upTo) ==
    {j \in AllowedCalls : j <= upTo /\ t - calls[j].at < RATE_LIMIT_CONFIG.windowMs}

\* A checkLimit call made now would be denied.
Blocked == Cardinality(CountedAt(now, Len(calls))) >= RATE_LIMIT_CONFIG.maxRequests

\* A call is denied if and only if maxRequests calls allowed before it are less
\* than windowMs old at the time of the call.
DeniedIffWindowFull ==
    \A k \in 1..Len(calls) :
        ~calls[k].allowed <=>
            Cardinality(CountedAt(calls[k].at, k - 1)) >= RATE_LIMIT_CONFIG.maxRequests

\* C18 as claimed: the limiter is a sliding window; it is blocked only while a
\* counted request is younger than windowMs, and no limiter stays blocked forever
\* once time advances (here: if the clock can still advance by a window).
C18_SlidingWindow_AsClaimed ==
    /\ []DeniedIffWindowFull
    /\ [](Blocked => CountedAt(now, Len(calls)) # {})
    /\ (Blocked /\ now + RATE_LIMIT_CONFIG.windowMs <= MaxTicks * TickMs) ~> ~Blocked

\* C18, amended: the same for a limiter with maxRequests >= 1; a limiter with
\* maxRequests = 0 denies every call at all times.
C18_SlidingWindow ==
    /\ []DeniedIffWindowFull
    /\ []((RATE_LIMIT_CONFIG.maxRequests >= 1 /\ Blocked) => CountedAt(now, Len(calls)) # {})
    /\ (/\ RATE_LIMIT_CONFIG.maxRequests >= 1
        /\ Blocked
        /\ now + RATE_LIMIT_CONFIG.windowMs <= MaxTicks * TickMs) ~> ~Blocked

\* A limiter of one request per second: allowed at 0, denied at 0 and half a
\* second later, allowed again at one second.
C18_Witness ==
    /\ RATE_LIMIT_CONFIG = [enabled |-> TRUE, maxRequests |-> 1, windowMs |-> MsPerSecond]
    /\ calls = <<[at |-> 0, allowed |-> TRUE], [at |-> 0, allowed |-> FALSE],
                 [at |-> TickMs, allowed |-> FALSE], [at |-> MsPerSecond, allowed |-> TRUE]>>

\* The last thing done to the limiter was a checkLimit call.
CheckLimitDone == arg.fn = "checkLimit" /\ Len(calls) > 0

\* The time of the oldest request counted at the last checkLimit call.
OldestCounted ==
    LET at      == calls[Len(calls)].at
        counted == {calls[j].at : j \in CountedAt(at, Len(calls) - 1)}
    IN  CHOOSE t \in counted : \A u \in counted : t <= u

\* C19: with maxRequests >= 1 a denied call returns
\* retryAfter = ceil((oldest counted timestamp + windowMs - now) / 1000), which is
\* greater than 0 and at most ceil(windowMs / 1000); an allowed call returns no
\* retryAfter.
C19_RetryAfter ==
    (CheckLimitDone /\ RATE_LIMIT_CONFIG.maxRequests >= 1) =>
        IF ret.allowed
        THEN DOMAIN ret = {"allowed"}
        ELSE LET remaining == OldestCounted + RATE_LIMIT_CONFIG.windowMs - calls[Len(calls)].at
             IN  /\ ret.retryAfter * MsPerSecond >= remaining
                 /\ (ret.retryAfter - 1) * MsPerSecond < remaining
                 /\ ret.retryAfter > 0
                 /\ (ret.retryAfter - 1) * MsPerSecond < RATE_LIMIT_CONFIG.windowMs

\* A window of 1.5 s: a call denied half a second after the counted request has
\* one second left and is told to retry after 1 s.
C19_Witness ==
    /\ CheckLimitDone
    /\ RATE_LIMIT_CONFIG = [enabled |-> TRUE, maxRequests |-> 1, windowMs |-> MsPerSecond + TickMs]
    /\ calls = <<[at |-> 0, allowed |-> TRUE], [at |-> TickMs, allowed |-> FALSE]>>
    /\ ret = [allowed |-> FALSE, retryAfter |-> 1]

(***************************************************************************)
(* The server (createApiServer): one tool per operation of the default     *)
(* environment's spec and five management tools.  A spec is modelled by    *)
(* the set of its operationIds.  SPEC_REFRESH_INTERVAL has its default 0,  *)
(* so a spec changes only when refresh_openapi_spec fetches it.            *)
(***************************************************************************)
Environments == {"dev", "prod"}

\* ENVIRONMENT_CONFIG.defaultEnvironment; createApiServer keeps the service of
\* this environment in 'defaultService' for as long as the server runs.
StartupDefault == "dev"

OperationIds == {"getUser", "listUsers"}

\* What a spec URL may serve.
RemoteSpecs == SUBSET OperationIds

\* The definitions (path templates) an operation can have in a spec: the API has
\* moved getUser to a new path at some point.
Definitions ==
    [getUser   |-> {"/users/{id}", "/v2/users/{id}"},
     listUsers |-> {"/users"}]

\* getOperationById's null; also the request of a call that forwards none.
NoDefinition == "null"

\* The definitions a served spec with the given operations can hold.
RemoteDefinitions(operationIds) ==
    {d \in [OperationIds -> UNION {Definitions[id] : id \in OperationIds} \cup {NoDefinition}] :
        \A id \in OperationIds :
            IF id \in operationIds THEN d[id] \in Definitions[id] ELSE d[id] = NoDefinition}

\* params.environment when the caller gives none.
NoEnvironment == ""

RateLimitExceeded == "Rate limit exceeded"

ServerLimits ==
    {[enabled |-> e, maxRequests |-> 1, windowMs |-> MsPerSecond] : e \in BOOLEAN}

\* The calls a client can make.
ToolCalls ==
    {[fn |-> "operation", operationId |-> id, environment |-> e] :
        id \in registeredOperationIds, e \in Environments \cup {NoEnvironment}}
    \cup {[fn |-> "refresh_openapi_spec", environment |-> e] : e \in Environments \cup {NoEnvironment}}
    \cup {[fn |-> "set_default_environment", environment |-> e] : e \in Environments}
    \cup {[fn |-> f] : f \in {"list_environments", "get_current_environment", "check_server_status"}}

\* environment || environmentManager.getDefaultEnvironment()
TargetEnvironment(params) ==
    IF params.environment = NoEnvironment THEN defaultEnvironment ELSE params.environment

\* if (rateLimiter) { checkLimit() ... if (!allowed) throw }: the call is rejected.
RateLimited ==
    RATE_LIMIT_CONFIG.enabled /\ ~checkLimit(requests, now, RATE_LIMIT_CONFIG).allowed

\* this.requests after the rate limit check of a handler.
RateChecked ==
    IF RATE_LIMIT_CONFIG.enabled THEN checkLimitRequests(requests, now, RATE_LIMIT_CONFIG) ELSE requests

\* A slip: the registered set rebuilt from the refreshed spec.
RefreshRegistered_Reset(registeredIds, newOperations, defaultOperations) ==
    {id \in newOperations : id \in defaultOperations}

\* The refresh loop: every operation of the refreshed spec that has no tool goes
\* to registerOperationTool, which registers it if the startup default service
\* knows it.
RefreshRegistered(registeredIds, newOperations, defaultOperations) ==
    registeredIds \cup {id \in newOperations \ registeredIds : id \in defaultOperations}

\* A handler that executes the definition the tool was registered with.
getOperationById_AtRegistration(environment, operationId) == toolOperation[operationId]

\* service.getOperationById(operationId), service being the service of the
\* environment: the operation as the spec held now defines it, or null.
getOperationById(environment, operationId) ==
    IF operationId \in services[environment] THEN definitions[environment][operationId]
    ELSE NoDefinition

\* The definitions registerOperationTool has read once the refresh loop is over:
\* that of an operation registered in the loop is read from the startup default
\* service.
RefreshToolOperation(registeredIds, registeredIdsAfter, defaultDefinitions) ==
    [id \in OperationIds |->
        IF id \in registeredIdsAfter \ registeredIds THEN defaultDefinitions[id]
        ELSE toolOperation[id]]

InitServer ==
    /\ pc = "idle"
    /\ arg = [fn |-> "createApiServer"]
    /\ ret = <<>>
    /\ PassIdle
    /\ now = 0
    /\ requests = <<>>
    /\ calls = <<>>
    /\ RATE_LIMIT_CONFIG \in ServerLimits
    /\ services \in [Environments -> RemoteSpecs]
    /\ registeredOperationIds = services[StartupDefault]
    /\ defaultEnvironment = StartupDefault
    /\ definitions \in [Environments -> UNION {RemoteDefinitions(ids) : ids \in RemoteSpecs}]
    /\ \A e \in Environments : definitions[e] \in RemoteDefinitions(services[e])
    /\ toolOperation = definitions[StartupDefault]
    /\ ENVIRONMENT_CONFIG = <<>>
    /\ SessionIdle

\* A client calls a tool.
Invoke ==
    /\ pc = "idle"
    /\ pc' = "handling"
    /\ arg' \in ToolCalls
    /\ ret' = <<>>
    /\ UNCHANGED <<namingVars, serverVars>>

HandleOperation ==
    /\ pc = "handling"
    /\ arg.fn = "operation"
    /\ pc' = "idle"
    /\ requests' = RateChecked
    /\ IF RateLimited
       THEN ret' = [isError |-> TRUE, text |-> RateLimitExceeded, request |-> NoDefinition]
       ELSE LET currentOperation == getOperationById(TargetEnvironment(arg), arg.operationId)
            IN  IF currentOperation = NoDefinition
                THEN ret' = [isError |-> TRUE, text |-> "not found in current spec",
                             request |-> NoDefinition]
                ELSE \E failed \in BOOLEAN :
                         ret' = [isError |-> failed,
                                 text    |-> IF failed THEN "request failed" ELSE "result",
                                 request |-> currentOperation]
    /\ UNCHANGED <<arg, namingVars, now, calls, RATE_LIMIT_CONFIG, services, registeredOperationIds,
                   defaultEnvironment, definitions, toolOperation,
                   ENVIRONMENT_CONFIG, sessionVars>>

HandleRefresh ==
    /\ pc = "handling"
    /\ arg.fn = "refresh_openapi_spec"
    /\ pc' = "idle"
    /\ requests' = RateChecked
    /\ IF RateLimited
       THEN /\ ret' = [isError |-> TRUE, text |-> RateLimitExceeded]
            /\ UNCHANGED <<services, registeredOperationIds, definitions, toolOperation>>
       ELSE \/ /\ ret' = [isError |-> TRUE, text |-> "Failed to refresh OpenAPI spec"]
               /\ UNCHANGED <<services, registeredOperationIds, definitions, toolOperation>>
            \/ \E fetched \in RemoteSpecs : \E fetchedDefinitions \in RemoteDefinitions(fetched) :
                   /\ services' = [services EXCEPT ![TargetEnvironment(arg)] = fetched]
                   /\ definitions' = [definitions EXCEPT ![TargetEnvironment(arg)] = fetchedDefinitions]
                   /\ registeredOperationIds' =
                          RefreshRegistered(registeredOperationIds, fetched, services'[StartupDefault])
                   /\ toolOperation' =
                          RefreshToolOperation(registeredOperationIds, registeredOperationIds',
                                               definitions'[StartupDefault])
                   /\ ret' = [isError |-> FALSE, text |-> "refreshed",
                              newToolsCount |-> Cardinality(fetched \ registeredOperationIds)]
    /\ UNCHANGED <<arg, namingVars, now, calls, RATE_LIMIT_CONFIG, defaultEnvironment,
                   ENVIRONMENT_CONFIG, sessionVars>>

HandleListEnvironments ==
    /\ pc = "handling"
    /\ arg.fn = "list_environments"
    /\ pc' = "idle"
    /\ ret' = [isError |-> FALSE, text |-> "Configured Environments"]
    /\ UNCHANGED <<arg, namingVars, serverVars>>

HandleGetCurrentEnvironment ==
    /\ pc = "handling"
    /\ arg.fn = "get_current_environment"
    /\ pc' = "idle"
    /\ ret' = [isError |-> FALSE, text |-> "Current default environment"]
    /\ UNCHANGED <<arg, namingVars, serverVars>>

HandleSetDefaultEnvironment ==
    /\ pc = "handling"
    /\ arg.fn = "set_default_environment"
    /\ pc' = "idle"
    /\ defaultEnvironment' = arg.environment
    /\ ret' = [isError |-> FALSE, text |-> "Default environment changed"]
    /\ UNCHANGED <<arg, namingVars, now, requests, calls, RATE_LIMIT_CONFIG, services,
                   registeredOperationIds, definitions, toolOperation,
                   ENVIRONMENT_CONFIG, sessionVars>>

\* check_server_status reads the limiter's statistics and counts the tools.
HandleCheckServerStatus ==
    /\ pc = "handling"
    /\ arg.fn = "check_server_status"
    /\ pc' = "idle"
    /\ requests' = IF RATE_LIMIT_CONFIG.enabled
                   THEN WithinWindow(requests, now, RATE_LIMIT_CONFIG.windowMs)
                   ELSE requests
    /\ ret' = [isError |-> FALSE, text |-> "status",
               toolsAvailable |-> Cardinality(registeredOperationIds) + 5]
    /\ UNCHANGED <<arg, namingVars, now, calls, RATE_LIMIT_CONFIG, services, registeredOperationIds,
                   defaultEnvironment, definitions, toolOperation,
                   ENVIRONMENT_CONFIG, sessionVars>>

NextServer ==
    \/ Invoke
    \/ HandleOperation
    \/ HandleRefresh
    \/ HandleListEnvironments
    \/ HandleGetCurrentEnvironment
    \/ HandleSetDefaultEnvironment
    \/ HandleCheckServerStatus
    \/ Tick

SpecServer == InitServer /\ [][NextServer]_vars

(***************************************************************************)
(* Claims about the server's tools.                                        *)
(***************************************************************************)
\* The last call was a refresh_openapi_spec that succeeded.
RefreshSucceeded ==
    /\ pc = "idle"
    /\ arg.fn = "refresh_openapi_spec"
    /\ ~ret.isError

\* C14 as claimed: every refresh starts from an empty registered set, so after
\* refresh_openapi_spec the registered set holds exactly the operations of the
\* refreshed spec, and an operation that disappeared is no longer registered.
C14_RefreshResets_AsClaimed ==
    RefreshSucceeded => registeredOperationIds = services[TargetEnvironment(arg)]

\* C14, amended: the registered set is never reset.  No step takes an operation
\* out of it, and a successful refresh_openapi_spec adds to it the operations of
\* the refreshed spec that the startup default environment's spec has too.
C14_RefreshOnlyAdds ==
    [][/\ registeredOperationIds \subseteq registeredOperationIds'
       /\ (/\ pc = "handling"
           /\ arg.fn = "refresh_openapi_spec"
           /\ pc' = "idle"
           /\ ~ret'.isError) =>
              registeredOperationIds' =
                  registeredOperationIds
                      \cup (services'[TargetEnvironment(arg)] \cap services'[StartupDefault])]_vars

\* The default environment's spec was refreshed and has lost 'getUser', which is
\* still registered.
C14_Witness ==
    /\ RefreshSucceeded
    /\ TargetEnvironment(arg) = StartupDefault
    /\ services[StartupDefault] = {"listUsers"}
    /\ registeredOperationIds = {"getUser", "listUsers"}

\* C20: with rate limiting enabled every tool call is counted against the one
\* limit, and is rejected with a rate-limit error once the limit is exceeded;
\* this holds of the operation tools and of the five management tools.
C20_AllToolsLimited ==
    [][(pc = "handling" /\ pc' = "idle" /\ RATE_LIMIT_CONFIG.enabled) =>
           IF Cardinality({i \in 1..Len(requests) : now - requests[i] < RATE_LIMIT_CONFIG.windowMs})
                  >= RATE_LIMIT_CONFIG.maxRequests
           THEN ret'.isError /\ ret'.text = RateLimitExceeded
           ELSE Len(requests') > 0 /\ requests'[Len(requests')] = now]_vars

(***************************************************************************)
(* The tool description generator.                                         *)
(***************************************************************************)
\* action.charAt(0).toUpperCase() + action.slice(1)
UpperFirst(s) == IF s = <<>> THEN s ELSE toUpperCase(<<s[1]>>) \o Tail(s)

\* The phrase made from method and path when the operation has no summary and
\* no description.
getFriendlyAction(method, path) ==
    LET upperMethod == toUpperCase(method)
        resource    == extractResourceName(path)
        action      == extractActionFromPath(path)
    IN  CASE upperMethod = <<"G","E","T">> ->
                IF includes(path, <<"{">>) THEN <<"G","e","t"," ","a"," ","s","i","n","g","l","e"," ">> \o resource
                ELSE <<"L","i","s","t"," ">> \o resource \o <<"s">>
          [] upperMethod = <<"P","O","S","T">> ->
                IF action # null
                THEN IF resource = action THEN UpperFirst(action)
                     ELSE UpperFirst(action) \o <<" ">> \o resource
                ELSE <<"C","r","e","a","t","e"," ","a"," ","n","e","w"," ">> \o resource
          [] upperMethod \in {<<"P","U","T">>, <<"P","A","T","C","H">>} -> <<"U","p","d","a","t","e"," ","a"," ">> \o resource
          [] upperMethod = <<"D","E","L","E","T","E">> -> <<"D","e","l","e","t","e"," ","a"," ">> \o resource
          [] OTHER -> method \o <<" ">> \o path

\* A slip: the description preferred to the summary.
MainDescription_DescriptionFirst(operation) ==
    IF operation.description # null THEN split(operation.description, "\n")[1]
    ELSE IF operation.summary # null THEN operation.summary
    ELSE getFriendlyAction(operation.method, operation.path)

\* parts[0]: the summary, else the first line of the description, else the phrase.
MainDescription(operation) ==
    IF operation.summary # null THEN operation.summary
    ELSE IF operation.description # null THEN split(operation.description, "\n")[1]
    ELSE getFriendlyAction(operation.method, operation.path)

\* operation.requestBody && 'required' in operation.requestBody &&
\* operation.requestBody.required === true
hasRequiredBody(operation) ==
    /\ operation.requestBody # null
    /\ "required" \in DOMAIN operation.requestBody
    /\ operation.requestBody.required = TRUE

\* paramNames: the names of the parameters with required === true, and 'body'.
paramNames(operation) ==
    LET requiredParams == SelectSeq(operation.parameters, LAMBDA p : p.required = TRUE)
    IN  [i \in 1..Len(requiredParams) |-> requiredParams[i].name]
            \o (IF hasRequiredBody(operation) THEN <<<<"b","o","d","y">>>> ELSE <<>>)

\* A slip: the period appended whether or not the sentence ends with one.
generateToolDescription_AlwaysPeriod(operation) ==
    LET main == MainDescription(operation)
    IN  IF paramNames(operation) # <<>>
        THEN join(<<main \o <<".">>,
                    <<"R","e","q","u","i","r","e","s",":"," ">> \o join(paramNames(operation), <<","," ">>) \o <<".">>>>, <<" ">>)
        ELSE join(<<main>>, <<" ">>)

generateToolDescription(operation) ==
    LET main == MainDescription(operation)
    IN  IF paramNames(operation) # <<>>
        THEN join(<<IF endsWith(main, <<".">>) THEN main ELSE main \o <<".">>,
                    <<"R","e","q","u","i","r","e","s",":"," ">> \o join(paramNames(operation), <<","," ">>) \o <<".">>>>, <<" ">>)
        ELSE join(<<main>>, <<" ">>)

(***************************************************************************)
(* Checking the description generator: the caller passes an operation with *)
(* or without a summary and a description, with up to MaxParameters        *)
(* parameters and with or without a request body.                          *)
(***************************************************************************)
MaxParameters == 2

Summaries == {null, <<"G","e","t"," ","u","s","e","r">>, <<"D","o","n","e",".">>}

Descriptions == {null, <<"A","b","\n","C","d">>, <<"\n","C","d">>}

DescribedPaths ==
    {<<"/","u","s","e","r","s","/","{","i","d","}">>, <<"/","u","s","e","r","s">>, <<"/","u","s","e","r","s","/","s","e","a","r","c","h">>, <<"/","c","a","l","c","u","l","a","t","e">>}

Parameters ==
    {[name |-> <<"i","d">>, required |-> TRUE],
     [name |-> <<"q">>, required |-> FALSE],
     [name |-> <<"x">>, required |-> TRUE]}

\* No body, a body that says nothing about 'required', an optional body, a
\* required body.
RequestBodies ==
    {null,
     [content |-> "application/json"],
     [content |-> "application/json", required |-> FALSE],
     [content |-> "application/json", required |-> TRUE]}

DescribedOperations ==
    {[operationId |-> <<"o","p">>, method |-> m, path |-> p, summary |-> s, description |-> d,
      parameters |-> ps, requestBody |-> b] :
        m \in Methods, p \in DescribedPaths, s \in Summaries, d \in Descriptions,
        ps \in UNION {[1..k -> Parameters] : k \in 0..MaxParameters},
        b \in RequestBodies}

InitDescribe ==
    /\ pc = "call"
    /\ arg \in {[fn |-> "generateToolDescription", operation |-> op] : op \in DescribedOperations}
    /\ ret = <<>>
    /\ PassIdle
    /\ ServerIdle

CallDescribe ==
    /\ pc = "call"
    /\ arg.fn = "generateToolDescription"
    /\ ret' = generateToolDescription(arg.operation)
    /\ pc' = "done"
    /\ UNCHANGED <<arg, namingVars, serverVars>>

NextDescribe == CallDescribe

SpecDescribe == InitDescribe /\ [][NextDescribe]_vars

(***************************************************************************)
(* Claims about generateToolDescription.                                   *)
(***************************************************************************)
DescribeDone == pc = "done" /\ arg.fn = "generateToolDescription"

\* The text of a description up to its first newline.
UpToFirstNewline(text) ==
    IF IndexOfChar(text, "\n") = 0 THEN text ELSE SubSeq(text, 1, IndexOfChar(text, "\n") - 1)

\* The phrase the claim gives for GET, POST, PUT and DELETE, from the resource
\* and the action extracted as they are for names.
ClaimedPhrase(method, path) ==
    LET resource == extractResourceName(path)
        action   == extractActionFromPath(path)
        Action   == IF action # <<>> /\ action[1] \in Lower
                    THEN <<UpperOf[action[1]]>> \o SubSeq(action, 2, Len(action))
                    ELSE action
    IN  CASE method = <<"G","E","T">> /\ HasParameterSegment(path) -> <<"G","e","t"," ","a"," ","s","i","n","g","l","e"," ">> \o resource
          [] method = <<"G","E","T">> /\ ~HasParameterSegment(path) -> <<"L","i","s","t"," ">> \o resource \o <<"s">>
          [] method = <<"P","O","S","T">> /\ action # <<>> /\ resource # action -> Action \o <<" ">> \o resource
          [] method = <<"P","O","S","T">> /\ action # <<>> /\ resource = action -> Action
          [] method = <<"P","O","S","T">> /\ action = <<>> -> <<"C","r","e","a","t","e"," ","a"," ","n","e","w"," ">> \o resource
          [] method = <<"P","U","T">> -> <<"U","p","d","a","t","e"," ","a"," ">> \o resource
          [] method = <<"D","E","L","E","T","E">> -> <<"D","e","l","e","t","e"," ","a"," ">> \o resource
          [] OTHER -> getFriendlyAction(method, path)

\* The base sentence as the claim gives it.
BaseSentence(operation) ==
    IF operation.summary # <<>> THEN operation.summary
    ELSE IF operation.description # <<>> THEN UpToFirstNewline(operation.description)
    ELSE ClaimedPhrase(operation.method, operation.path)

\* The positions of the parameters with required == true.
RequiredPositions(operation) ==
    {i \in 1..Len(operation.parameters) : operation.parameters[i].required = TRUE}

\* The request body is marked required.
BodyRequired(operation) ==
    /\ operation.requestBody # <<>>
    /\ "required" \in DOMAIN operation.requestBody
    /\ operation.requestBody.required = TRUE

\* C15: the base sentence is the summary if there is one, else the description
\* up to its first newline if there is one, else the phrase made from method and
\* path; with no required parameter and no required body the description
\* returned is the base sentence unchanged.
C15_BaseSentence ==
    (/\ DescribeDone
     /\ RequiredPositions(arg.operation) = {}
     /\ ~BodyRequired(arg.operation)) => ret = BaseSentence(arg.operation)

\* No summary, no description, an optional parameter and a body that is not
\* marked required: the phrase for POST with an action word.
C15_Witness ==
    /\ DescribeDone
    /\ arg.operation.summary = <<>>
    /\ arg.operation.description = <<>>
    /\ arg.operation.method = <<"P","O","S","T">>
    /\ arg.operation.path = <<"/","u","s","e","r","s","/","s","e","a","r","c","h">>
    /\ Len(arg.operation.parameters) = 1
    /\ arg.operation.requestBody = [content |-> "application/json", required |-> FALSE]
    /\ ret = <<"S","e","a","r","c","h"," ","u","s","e","r">>

\* The names of the clause: the required parameters in declaration order, then
\* 'body' if the body is required, joined by ', '.
RECURSIVE RequiredClause(_, _)
RequiredClause(operation, from) ==
    IF from > Len(operation.parameters)
    THEN IF BodyRequired(operation) THEN <<","," ","b","o","d","y">> ELSE <<>>
    ELSE IF from \in RequiredPositions(operation)
    THEN <<","," ">> \o operation.parameters[from].name \o RequiredClause(operation, from + 1)
    ELSE RequiredClause(operation, from + 1)

\* C16: with a required parameter or a required body the description is the base
\* sentence, a period if the sentence does not end with one, ' Requires: ', the
\* required names joined by ', ' with 'body' last, and a period.
C16_RequiresClause ==
    (DescribeDone /\ (RequiredPositions(arg.operation) # {} \/ BodyRequired(arg.operation))) =>
        LET base   == BaseSentence(arg.operation)
            period == IF base # <<>> /\ base[Len(base)] = "." THEN <<>> ELSE <<".">>
            names  == RequiredClause(arg.operation, 1)
        IN  ret = base \o period \o <<" ","R","e","q","u","i","r","e","s",":"," ">> \o SubSeq(names, 3, Len(names)) \o <<".">>

\* A summary that ends with a period, a required and an optional parameter and
\* a required body.
C16_Witness ==
    /\ DescribeDone
    /\ arg.operation.summary = <<"D","o","n","e",".">>
    /\ arg.operation.parameters = <<[name |-> <<"i","d">>, required |-> TRUE], [name |-> <<"q">>, required |-> FALSE]>>
    /\ BodyRequired(arg.operation)
    /\ ret = <<"D","o","n","e","."," ","R","e","q","u","i","r","e","s",":"," ","i","d",","," ","b","o","d","y",".">>

\* C28: for every base name and every pair of operations with a non-empty
\* method, the collision resolver returns the base name, an underscore and a
\* non-empty suffix: the base name is a proper prefix of the result.
C28_ProperExtension ==
    (UniqueDone /\ arg.operation.method # <<>>) =>
        /\ Len(ret) > Len(arg.baseName) + 1
        /\ SubSeq(ret, 1, Len(arg.baseName) + 1) = arg.baseName \o <<"_">>
        /\ ret # arg.baseName

\* The last resort: two operations on one path with nothing else to tell them
\* apart get 'alt'.
C28_Witness ==
    /\ UniqueDone
    /\ arg.operation.method # <<>>
    /\ arg.operation.path = arg.existingOperation.path
    /\ arg.baseName = <<"g","e","t","_","u","s","e","r","_","d","e","t","a","i","l","s">>
    /\ ret = arg.baseName \o <<"_","a","l","t">>

\* What getStats would report in the current state.
CurrentRequests == getStats(requests, now, RATE_LIMIT_CONFIG).currentRequests

\* The step adds no timestamp to this.requests.
NoTimestampAdded ==
    /\ Len(requests') <= Len(requests)
    /\ \A i \in 1..Len(requests') : \E j \in 1..Len(requests) : requests'[i] = requests[j]

\* The step is a checkLimit call.
IsCheckLimitStep == Len(calls') = Len(calls) + 1

\* What the limiter's methods do to the recorded requests, but for what follows
\* a reset.
RecordingSteps ==
    /\ (IsCheckLimitStep /\ ret'.allowed) =>
           getStats(requests', now', RATE_LIMIT_CONFIG').currentRequests = CurrentRequests + 1
    /\ (IsCheckLimitStep /\ ~ret'.allowed) => NoTimestampAdded
    /\ (arg'.fn = "getStats" /\ now' = now) => NoTimestampAdded
    /\ (arg'.fn = "reset" /\ now' = now) =>
           getStats(requests', now', RATE_LIMIT_CONFIG').currentRequests = 0

\* The step is the first checkLimit call after a reset.
IsFirstCheckAfterReset == arg.fn = "reset" /\ IsCheckLimitStep

\* C27 as claimed: only an allowed checkLimit records a request, getStats counts
\* the allowed requests younger than windowMs, and after reset() the count is 0
\* and the next checkLimit is allowed.
C27_OnlyAllowedRecorded_AsClaimed ==
    /\ [](CurrentRequests = Cardinality(CountedAt(now, Len(calls))))
    /\ [][RecordingSteps /\ (IsFirstCheckAfterReset => ret'.allowed)]_vars

\* C27, amended: the same, the checkLimit that follows a reset being allowed when
\* maxRequests >= 1 (a limiter with maxRequests = 0 denies it as it denies every
\* call).
C27_OnlyAllowedRecorded ==
    /\ [](CurrentRequests = Cardinality(CountedAt(now, Len(calls))))
    /\ [][/\ RecordingSteps
          /\ IsFirstCheckAfterReset => (ret'.allowed <=> RATE_LIMIT_CONFIG.maxRequests >= 1)]_vars

\* A limiter of one request per second and a half: the call at 0 is recorded, the
\* denied call half a second later is not.
C27_Witness ==
    /\ RATE_LIMIT_CONFIG = [enabled |-> TRUE, maxRequests |-> 1, windowMs |-> MsPerSecond + TickMs]
    /\ arg.fn = "checkLimit"
    /\ calls = <<[at |-> 0, allowed |-> TRUE], [at |-> TickMs, allowed |-> FALSE]>>
    /\ requests = <<0>>
    /\ CurrentRequests = 1

\* The step is a refresh_openapi_spec call that answered with its success
\* message.
IsRefreshStep ==
    /\ pc = "handling"
    /\ arg.fn = "refresh_openapi_spec"
    /\ pc' = "idle"
    /\ ~ret'.isError

\* C29: the number a refresh reports as 'New Operations Registered' is the number
\* of identifiers the call added to registeredOperationIds, and check_server_status
\* reports the registered operation tools plus 5 as 'Tools Available'.
C29_ReportedCounts ==
    /\ [][IsRefreshStep =>
            ret'.newToolsCount = Cardinality(registeredOperationIds' \ registeredOperationIds)]_vars
    /\ []((pc = "idle" /\ arg.fn = "check_server_status") =>
            ret.toolsAvailable = Cardinality(registeredOperationIds) + 5)

(***************************************************************************)
(* Checking the path functions on their own: extractActionFromPath,        *)
(* extractResourceName and extractUniquePathSegments are applied to every  *)
(* path of up to MaxPathSegments segments over a vocabulary that holds     *)
(* plurals of each kind, action words alone, inflected, in kebab-case and  *)
(* in camelCase, a path parameter, and 'api', 'apis' and version markers   *)
(* in both letter cases.                                                   *)
(***************************************************************************)
MaxPathSegments == 2

PathSegments ==
    {<<"u","s","e","r","s">>, <<"c","a","t","e","g","o","r","i","e","s">>, <<"a","d","d","r","e","s","s","e","s">>, <<"{","i","d","}">>,
     <<"s","e","a","r","c","h">>, <<"p","r","o","c","e","s","s">>, <<"s","e","a","r","c","h","i","n","g">>, <<"c","a","l","c","u","l","a","t","e","-","t","a","x">>, <<"s","e","a","r","c","h","I","t","e","m","s">>,
     <<"a","p","i">>, <<"a","p","i","s">>, <<"A","P","I">>, <<"v","1">>, <<"V","2">>}

PathFunctions == {"extractActionFromPath", "extractResourceName", "extractUniquePathSegments"}

PathInputs ==
    {PathOf(segments) : segments \in UNION {[1..n -> PathSegments] : n \in 0..MaxPathSegments}}

InitPath ==
    /\ pc = "call"
    /\ arg \in {[fn |-> f, path |-> p] : f \in PathFunctions, p \in PathInputs}
    /\ ret = <<>>
    /\ PassIdle
    /\ ServerIdle

CallExtractAction ==
    /\ pc = "call"
    /\ arg.fn = "extractActionFromPath"
    /\ ret' = extractActionFromPath(arg.path)
    /\ pc' = "done"
    /\ UNCHANGED <<arg, operations, registered, serverVars>>

CallExtractResource ==
    /\ pc = "call"
    /\ arg.fn = "extractResourceName"
    /\ ret' = extractResourceName(arg.path)
    /\ pc' = "done"
    /\ UNCHANGED <<arg, operations, registered, serverVars>>

CallExtractUniquePathSegments ==
    /\ pc = "call"
    /\ arg.fn = "extractUniquePathSegments"
    /\ ret' = extractUniquePathSegments(arg.path)
    /\ pc' = "done"
    /\ UNCHANGED <<arg, operations, registered, serverVars>>

NextPath == CallExtractAction \/ CallExtractResource \/ CallExtractUniquePathSegments

SpecPath == InitPath /\ [][NextPath]_vars

(***************************************************************************)
(* Claims about the path functions.                                        *)
(***************************************************************************)
\* The segments of the path given, in order, the empty ones left out.
SegmentsOfPath == SelectSeq(split(arg.path, "/"), LAMBDA s : s # <<>>)

\* The segment is a path parameter.
IsParameterSegment(s) == s[1] = "{"

\* The segments extractActionFromPath scans.
ScannedSegments == SelectSeq(SegmentsOfPath, LAMBDA s : ~IsParameterSegment(s))

\* The four ways a segment yields an action word, each null when it yields none.
ExactMatch(s) == IF IsActionWord(toLowerCase(s)) THEN toLowerCase(s) ELSE null

KebabMatch(s) ==
    LET parts == mapToLowerCase(split(s, "-"))
    IN  IF Len(parts) > 1
        THEN FirstWhere(parts, [i \in 1..Len(parts) |-> IsActionWord(parts[i])])
        ELSE null

CamelMatch(s) ==
    LET words == splitCamelCase(s)
    IN  FirstWhere(words, [i \in 1..Len(words) |-> IsActionWord(words[i])])

PrefixMatch(s) ==
    FirstWhere(ACTION_WORDS,
               [i \in 1..Len(ACTION_WORDS) |-> startsWith(toLowerCase(s), ACTION_WORDS[i])])

\* The ways in the order claimed.
MatchesOf(s) == <<ExactMatch(s), KebabMatch(s), CamelMatch(s), PrefixMatch(s)>>

\* The positions of the scanned segments that match in some way.
MatchingPositions ==
    {i \in 1..Len(ScannedSegments) : \E k \in 1..4 : MatchesOf(ScannedSegments[i])[k] # null}

ExtractActionDone == pc = "done" /\ arg.fn = "extractActionFromPath"

\* C24: extractActionFromPath returns the action word of the first non-parameter
\* segment that matches in any way, taken from the first way that matches among
\* exact, kebab-case part, camelCase word and prefix; it returns null if and only
\* if no segment matches in any way.
C24_FirstMatchingSegment ==
    ExtractActionDone =>
        /\ ret = null <=> MatchingPositions = {}
        /\ \A i \in MatchingPositions :
               (\A j \in MatchingPositions : i <= j) =>
                   LET matches == MatchesOf(ScannedSegments[i])
                   IN  \E k \in 1..4 :
                           /\ matches[k] # null
                           /\ \A l \in 1..(k - 1) : matches[l] = null
                           /\ ret = matches[k]

\* /searching/process: the prefix match of the first segment wins over the exact
\* match of the second.
C24_Witness ==
    /\ ExtractActionDone
    /\ arg.path = <<"/","s","e","a","r","c","h","i","n","g","/","p","r","o","c","e","s","s">>
    /\ ExactMatch(ScannedSegments[1]) = null
    /\ ExactMatch(ScannedSegments[2]) = <<"p","r","o","c","e","s","s">>
    /\ ret = <<"s","e","a","r","c","h">>

\* The segments the resource extractor keeps: not a path parameter, not 'api',
\* not a bare version marker.
ResourceSegments ==
    SelectSeq(SegmentsOfPath,
              LAMBDA s : ~IsParameterSegment(s) /\ s # <<"a","p","i">> /\ ~IsBareVersion(s))

\* The segment the resource is taken from: the last one kept, or the one before it
\* when the last one is exactly an action word.
ResourceSegment ==
    LET n == Len(ResourceSegments)
    IN  IF IsActionWord(toLowerCase(ResourceSegments[n])) THEN ResourceSegments[n - 1]
        ELSE ResourceSegments[n]

\* The path holds a single kept segment and it is an action word.
OnlyAnActionWord ==
    Len(ResourceSegments) = 1 /\ IsActionWord(toLowerCase(ResourceSegments[1]))

\* The singular of a lower-case word by the first rule that applies.
SingularOf(w) ==
    LET n == Len(w)
    IN  IF n >= 3 /\ SubSeq(w, n - 2, n) = <<"i","e","s">> THEN SubSeq(w, 1, n - 3) \o <<"y">>
        ELSE IF n > 2 /\ SubSeq(w, n - 1, n) = <<"e","s">> THEN SubSeq(w, 1, n - 2)
        ELSE IF n > 1 /\ w[n] = "s" THEN SubSeq(w, 1, n - 1)
        ELSE w

\* A segment without the action word it starts with: the kebab-case parts after
\* the first when the first is an action word, the camelCase words after the first
\* when the first is an action word.
WithoutLeadingAction(s) ==
    LET parts  == split(s, "-")
        kebab  == IF Len(parts) > 1 /\ IsActionWord(toLowerCase(parts[1]))
                  THEN join(Tail(parts), <<"-">>) ELSE s
        words  == splitCamelCase(kebab)
    IN  IF Len(words) > 1 /\ IsActionWord(words[1]) THEN join(Tail(words), <<>>)
        ELSE toLowerCase(kebab)

ExtractResourceDone == pc = "done" /\ arg.fn = "extractResourceName"

\* C25 as claimed: the resource is the last segment kept, or the one before it
\* when the last is exactly an action word, in the singular by the first rule
\* that applies; a path that is only an action word gives that action word.
C25_ResourceOfPath_AsClaimed ==
    (ExtractResourceDone /\ Len(ResourceSegments) > 0) =>
        ret = IF OnlyAnActionWord THEN toLowerCase(ResourceSegments[1])
              ELSE SingularOf(toLowerCase(ResourceSegment))

\* C25, amended: the same, the segment first losing an action word it starts with
\* in kebab-case or camelCase; a path with no segment kept gives 'resource'.
C25_ResourceOfPath ==
    ExtractResourceDone =>
        ret = IF Len(ResourceSegments) = 0 THEN <<"r","e","s","o","u","r","c","e">>
              ELSE IF OnlyAnActionWord THEN toLowerCase(ResourceSegments[1])
              ELSE SingularOf(WithoutLeadingAction(ResourceSegment))

\* /addresses/search: the action word is stepped over and 'addresses' loses 'es'.
C25_Witness ==
    /\ ExtractResourceDone
    /\ arg.path = <<"/","a","d","d","r","e","s","s","e","s","/","s","e","a","r","c","h">>
    /\ ResourceSegment = <<"a","d","d","r","e","s","s","e","s">>
    /\ ret = <<"a","d","d","r","e","s","s">>

\* A token the claim calls generic: 'api', 'apis' or a bare version marker vN, in
\* any letter case.
IsGenericToken(s) ==
    \/ toLowerCase(s) = <<"a","p","i">>
    \/ toLowerCase(s) = <<"a","p","i","s">>
    \/ IsBareVersion(toLowerCase(s))

ExtractUniquePathSegmentsDone == pc = "done" /\ arg.fn = "extractUniquePathSegments"

\* C26: neither the resource extractor nor the tokens offered to the collision
\* resolver ever hold a generic token, and the two drop the same segments: a path
\* leaves the resource extractor without a segment exactly when it leaves the
\* collision resolver without a token.
C26_SameGenericSegments ==
    /\ ExtractResourceDone =>
           /\ ~IsGenericToken(ret)
           /\ ret = <<"r","e","s","o","u","r","c","e">> <=> extractUniquePathSegments(arg.path) = <<>>
    /\ ExtractUniquePathSegmentsDone =>
           \A i \in 1..Len(ret) : ret[i] # <<>> /\ ~IsParameterSegment(ret[i]) /\ ~IsGenericToken(ret[i])

\* The last call was an operation tool, and it was not turned away by the limiter.
OperationHandled ==
    /\ pc = "idle"
    /\ arg.fn = "operation"
    /\ ret.text # RateLimitExceeded

\* C23: every call of a registered operation tool resolves the operation in the
\* spec the target environment holds at the time of the call: the request
\* forwarded is that of the current definition, whatever the definition read at
\* registration was, and when the current spec lacks the operation the call
\* answers isError and forwards no request.  (Nothing but a tool call changes the
\* specs, so the specs of a state that follows the call are those of the call.)
C23_ResolvedAtCallTime ==
    /\ OperationHandled =>
           IF arg.operationId \in services[TargetEnvironment(arg)]
           THEN ret.request = definitions[TargetEnvironment(arg)][arg.operationId]
           ELSE ret.isError /\ ret.request = NoDefinition
    /\ (pc = "idle" /\ arg.fn = "operation" /\ ret.text = RateLimitExceeded) =>
           ret.isError /\ ret.request = NoDefinition

\* getUser was registered with its first path, the spec was refreshed, and the
\* call goes to the new path.
C23_Witness ==
    /\ OperationHandled
    /\ arg.operationId = "getUser"
    /\ toolOperation["getUser"] = "/users/{id}"
    /\ definitions[TargetEnvironment(arg)]["getUser"] = "/v2/users/{id}"
    /\ ret = [isError |-> FALSE, text |-> "result", request |-> "/v2/users/{id}"]

(***************************************************************************)
(* SessionManager.  'transports' is a JavaScript object used as a map: its *)
(* keys keep their insertion order, and a for-in loop over it visits no    *)
(* key twice, skips a key deleted before it is reached, and may or may not *)
(* visit a key added while the loop runs.  closeAll is an async function:  *)
(* it runs up to its first await inside the call, and other calls of the   *)
(* manager (the HTTP handlers and the transports' onclose callbacks make   *)
(* them) can run while it awaits a close().                                *)
(***************************************************************************)
SessionIds == {"session-1", "session-2"}

Transports == {"mockTransport", "mockTransport2"}

undefined == "undefined"

\* sessionId in this.transports
HasSession(record, sessionId) == \E i \in 1..Len(record) : record[i].sessionId = sessionId

\* this.transports[sessionId]
TransportOf(record, sessionId) ==
    IF HasSession(record, sessionId)
    THEN record[CHOOSE i \in 1..Len(record) : record[i].sessionId = sessionId].transport
    ELSE undefined

\* this.transports[sessionId] = transport: a new key goes last, a key already
\* there keeps its place.
SetTransport(record, sessionId, transport) ==
    IF HasSession(record, sessionId)
    THEN [i \in 1..Len(record) |->
             IF record[i].sessionId = sessionId
             THEN [sessionId |-> sessionId, transport |-> transport]
             ELSE record[i]]
    ELSE Append(record, [sessionId |-> sessionId, transport |-> transport])

\* delete this.transports[sessionId]
DeleteTransport(record, sessionId) == SelectSeq(record, LAMBDA e : e.sessionId # sessionId)

\* The keys a for-in loop starts with.
KeysOf(record) == [i \in 1..Len(record) |-> record[i].sessionId]

\* The keys still to visit, from the first one that is still in the object.
RECURSIVE SkipDeleted(_, _)
SkipDeleted(record, keys) ==
    IF keys = <<>> THEN <<>>
    ELSE IF HasSession(record, Head(keys)) THEN keys
    ELSE SkipDeleted(record, Tail(keys))

NoCloseAll == [state |-> "none", sessionId |-> "", keys |-> <<>>, stored |-> <<>>, interleaved |-> FALSE]

\* The loop goes to its next key: close() is called on the transport of that key
\* and awaited; with no key left closeAll's promise resolves.
NextIteration(record, frame) ==
    LET keys == SkipDeleted(record, frame.keys)
    IN  IF keys = <<>>
        THEN [frame EXCEPT !.state = "resolved", !.sessionId = "", !.keys = <<>>]
        ELSE [frame EXCEPT !.state = "awaiting", !.sessionId = Head(keys), !.keys = Tail(keys)]

\* A closeAll without the try/catch: the rejection of a close() rejects closeAll.
Caught_Rethrown(record, frame) ==
    [frame EXCEPT !.state = "rejected", !.sessionId = "", !.keys = <<>>]

\* catch (error) { console.error(...) }: the loop goes on.
Caught(record, frame) == NextIteration(record, frame)

\* The history once the loop is at 'frame': the close() it has just called is
\* added, its outcome pending.
Called(log, record, frame) ==
    IF frame.state = "awaiting"
    THEN Append(log, [sessionId |-> frame.sessionId,
                      transport |-> TransportOf(record, frame.sessionId),
                      outcome   |-> "pending"])
    ELSE log

\* The history once the close() awaited has settled.
Settled(log, outcome) == [log EXCEPT ![Len(log)].outcome = outcome]

\* The keys the loop has visited or is to visit.
KnownKeys == {closed[i].sessionId : i \in 1..Len(closed)} \cup {closing.keys[i] : i \in 1..Len(closing.keys)}

InitSessions ==
    /\ pc = "sessions"
    /\ arg = [fn |-> "constructor"]
    /\ ret = <<>>
    /\ PassIdle
    /\ now = 0
    /\ requests = <<>>
    /\ calls = <<>>
    /\ RATE_LIMIT_CONFIG = [enabled |-> FALSE, maxRequests |-> 0, windowMs |-> 0]
    /\ services = <<>>
    /\ registeredOperationIds = {}
    /\ defaultEnvironment = ""
    /\ definitions = <<>>
    /\ toolOperation = <<>>
    /\ ENVIRONMENT_CONFIG = <<>>
    /\ transports = <<>>
    /\ closing = NoCloseAll
    /\ closed = <<>>

\* add(sessionId, transport).  While closeAll awaits, a key that is new to the
\* loop is visited later or not.
Add ==
    /\ pc = "sessions"
    /\ \E sessionId \in SessionIds, transport \in Transports :
        /\ arg' = [fn |-> "add", sessionId |-> sessionId]
        /\ transports' = SetTransport(transports, sessionId, transport)
        /\ IF closing.state = "awaiting"
           THEN \/ closing' = [closing EXCEPT !.interleaved = TRUE]
                \/ /\ sessionId \notin KnownKeys
                   /\ closing' = [closing EXCEPT !.interleaved = TRUE,
                                                 !.keys = Append(closing.keys, sessionId)]
           ELSE closing' = closing
    /\ ret' = <<>>
    /\ UNCHANGED <<pc, namingVars, toolVars, closed>>

\* get(sessionId)
Get ==
    /\ pc = "sessions"
    /\ \E sessionId \in SessionIds :
        /\ arg' = [fn |-> "get", sessionId |-> sessionId]
        /\ ret' = TransportOf(transports, sessionId)
    /\ UNCHANGED <<pc, namingVars, toolVars, sessionVars>>

\* delete(sessionId)
Delete ==
    /\ pc = "sessions"
    /\ \E sessionId \in SessionIds :
        /\ arg' = [fn |-> "delete", sessionId |-> sessionId]
        /\ transports' = DeleteTransport(transports, sessionId)
    /\ closing' = IF closing.state = "awaiting" THEN [closing EXCEPT !.interleaved = TRUE] ELSE closing
    /\ ret' = <<>>
    /\ UNCHANGED <<pc, namingVars, toolVars, closed>>

\* closeAll() is called (no closeAll is in progress): the loop starts and runs to
\* its first await.
CloseAll ==
    /\ pc = "sessions"
    /\ closing.state # "awaiting"
    /\ arg' = [fn |-> "closeAll"]
    /\ ret' = <<>>
    /\ closing' = NextIteration(transports, [NoCloseAll EXCEPT !.keys = KeysOf(transports),
                                                               !.stored = transports])
    /\ closed' = Called(<<>>, transports, closing')
    /\ UNCHANGED <<pc, namingVars, toolVars, transports>>

\* The close() awaited resolves: the key is deleted and the loop goes on.
CloseResolves ==
    /\ pc = "sessions"
    /\ closing.state = "awaiting"
    /\ transports' = DeleteTransport(transports, closing.sessionId)
    /\ closing' = NextIteration(transports', closing)
    /\ closed' = Called(Settled(closed, "resolved"), transports', closing')
    /\ UNCHANGED <<pc, arg, ret, namingVars, toolVars>>

\* The close() awaited rejects: the error is logged and the loop goes on.
CloseRejects ==
    /\ pc = "sessions"
    /\ closing.state = "awaiting"
    /\ closing' = Caught(transports, closing)
    /\ closed' = Called(Settled(closed, "rejected"), transports, closing')
    /\ UNCHANGED <<pc, arg, ret, namingVars, toolVars, transports>>

NextSessions == Add \/ Get \/ Delete \/ CloseAll \/ CloseResolves \/ CloseRejects

SpecSessions == InitSessions /\ [][NextSessions]_vars

(***************************************************************************)
(* Claims about the session manager.                                       *)
(***************************************************************************)
\* The number of close() calls the closeAll call made on a stored transport.
CloseCallsOn(log, entry) ==
    Cardinality({j \in 1..Len(log) :
                    log[j].sessionId = entry.sessionId /\ log[j].transport = entry.transport})

\* The step resolves the promise of a closeAll call.
CloseAllResolves == closing' # closing /\ closing'.state = "resolved"

\* What the claim says of a closeAll call that has resolved: one close() on every
\* transport stored when it was called, every transport whose close() succeeded
\* removed, and nothing left when every close() succeeded.
ClosedAndRemoved ==
    /\ \A i \in 1..Len(closing'.stored) : CloseCallsOn(closed', closing'.stored[i]) = 1
    /\ \A j \in 1..Len(closed') :
           closed'[j].outcome = "resolved" => ~HasSession(transports', closed'[j].sessionId)
    /\ (\A j \in 1..Len(closed') : closed'[j].outcome = "resolved") =>
           \A sessionId \in SessionIds : TransportOf(transports', sessionId) = undefined

\* C21 as claimed: closeAll never rejects, and when it resolves it has called
\* close() exactly once on every transport stored at the time of the call,
\* whatever close() rejected, and has removed every transport whose close()
\* succeeded, so that get(id) is undefined for every id when all succeeded.
C21_CloseAll_AsClaimed ==
    [][closing'.state # "rejected" /\ (CloseAllResolves => ClosedAndRemoved)]_vars

\* C21, amended: the same for a closeAll call during which no add and no delete
\* ran; in every case closeAll never rejects and calls close() at most once for a
\* session id.
C21_CloseAll ==
    [][/\ closing'.state # "rejected"
       /\ \A j, k \in 1..Len(closed') : closed'[j].sessionId = closed'[k].sessionId => j = k
       /\ (CloseAllResolves /\ ~closing'.interleaved) => ClosedAndRemoved]_vars

\* Two sessions: the close() of the first rejects, the second is closed all the
\* same and removed, the first stays.
C21_Witness ==
    /\ closing.state = "resolved"
    /\ ~closing.interleaved
    /\ closing.stored = <<[sessionId |-> "session-1", transport |-> "mockTransport"],
                          [sessionId |-> "session-2", transport |-> "mockTransport2"]>>
    /\ closed = <<[sessionId |-> "session-1", transport |-> "mockTransport", outcome |-> "rejected"],
                  [sessionId |-> "session-2", transport |-> "mockTransport2", outcome |-> "resolved"]>>
    /\ transports = <<[sessionId |-> "session-1", transport |-> "mockTransport"]>>

(***************************************************************************)
(* EnvironmentManager on its own.  ENVIRONMENT_CONFIG is computed once     *)
(* from the process environment (ENVIRONMENTS, API_SPEC_URL_<ENV>,         *)
(* DEFAULT_ENVIRONMENT); the manager is constructed from it and its        *)
(* methods are called.  Here 'services' maps an environment to its         *)
(* service, a record of the URLs it was constructed with.                  *)
(***************************************************************************)
EnvironmentLists == {<<>>, <<"dev">>, <<"prod">>, <<"dev", "prod">>, <<"prod", "dev">>}

\* What DEFAULT_ENVIRONMENT may hold: nothing, or a name, listed or not.
DefaultEnvironmentSettings == {"", "dev", "prod", "qa"}

\* process.env, as far as parseEnvironmentConfig reads it.
ProcessEnvironments ==
    {[ENVIRONMENTS |-> list, API_SPEC_URL |-> urls, DEFAULT_ENVIRONMENT |-> default] :
        list \in EnvironmentLists,
        urls \in [Environments -> {"", "https://api.example.com/openapi/v1.json"}],
        default \in DefaultEnvironmentSettings}

\* parseEnvironmentConfig()
parseEnvironmentConfig(env) ==
    IF Len(env.ENVIRONMENTS) = 0
    THEN [environments |-> <<>>, defaultEnvironment |-> "", configs |-> <<>>]
    ELSE [environments       |-> env.ENVIRONMENTS,
          defaultEnvironment |-> IF env.DEFAULT_ENVIRONMENT # "" THEN env.DEFAULT_ENVIRONMENT
                                 ELSE env.ENVIRONMENTS[1],
          configs            |-> [e \in {env.ENVIRONMENTS[i] : i \in 1..Len(env.ENVIRONMENTS)} |->
                                     [specUrl |-> env.API_SPEC_URL[e], baseUrl |-> ""]]]

\* The environments the constructor makes a service for: those with a spec URL.
ConfiguredEnvironments(config) ==
    {e \in DOMAIN config.configs : config.configs[e].specUrl # ""}

\* this.services.has(environment)
hasEnvironment(environment) == environment \in DOMAIN services

\* Array.from(this.services.keys()): the environments in the order they were set.
getEnvironments ==
    SelectSeq(ENVIRONMENT_CONFIG.environments, LAMBDA e : hasEnvironment(e))

NotFound == "not found"

InitEnvironments ==
    /\ pc = "new"
    /\ arg = [fn |-> "parseEnvironmentConfig"]
    /\ ret = <<>>
    /\ PassIdle
    /\ now = 0
    /\ requests = <<>>
    /\ calls = <<>>
    /\ RATE_LIMIT_CONFIG = [enabled |-> FALSE, maxRequests |-> 0, windowMs |-> 0]
    /\ services = <<>>
    /\ registeredOperationIds = {}
    /\ defaultEnvironment = ""
    /\ definitions = <<>>
    /\ toolOperation = <<>>
    /\ ENVIRONMENT_CONFIG \in {parseEnvironmentConfig(env) : env \in ProcessEnvironments}
    /\ SessionIdle

\* new EnvironmentManager(): throws when no environment has a spec URL.
Construct ==
    /\ pc = "new"
    /\ arg' = [fn |-> "constructor"]
    /\ defaultEnvironment' = ENVIRONMENT_CONFIG.defaultEnvironment
    /\ services' = [e \in ConfiguredEnvironments(ENVIRONMENT_CONFIG) |-> ENVIRONMENT_CONFIG.configs[e]]
    /\ IF ConfiguredEnvironments(ENVIRONMENT_CONFIG) = {}
       THEN pc' = "threw" /\ ret' = [threw |-> "No valid environments configured"]
       ELSE pc' = "ready" /\ ret' = [threw |-> ""]
    /\ UNCHANGED <<namingVars, now, requests, calls, RATE_LIMIT_CONFIG, registeredOperationIds,
                   definitions, toolOperation, ENVIRONMENT_CONFIG, sessionVars>>

\* getService() with no argument.
GetService ==
    /\ pc = "ready"
    /\ arg' = [fn |-> "getService"]
    /\ ret' = IF hasEnvironment(defaultEnvironment)
              THEN [threw |-> "", value |-> services[defaultEnvironment]]
              ELSE [threw |-> NotFound]
    /\ UNCHANGED <<pc, namingVars, serverVars>>

GetEnvironments ==
    /\ pc = "ready"
    /\ arg' = [fn |-> "getEnvironments"]
    /\ ret' = [threw |-> "", value |-> getEnvironments]
    /\ UNCHANGED <<pc, namingVars, serverVars>>

GetDefaultEnvironment ==
    /\ pc = "ready"
    /\ arg' = [fn |-> "getDefaultEnvironment"]
    /\ ret' = [threw |-> "", value |-> defaultEnvironment]
    /\ UNCHANGED <<pc, namingVars, serverVars>>

\* setDefaultEnvironment(environment), with a name that is configured or not.
SetDefaultEnvironment ==
    /\ pc = "ready"
    /\ \E environment \in Environments \cup {"qa"} :
        /\ arg' = [fn |-> "setDefaultEnvironment", environment |-> environment]
        /\ IF hasEnvironment(environment)
           THEN defaultEnvironment' = environment /\ ret' = [threw |-> ""]
           ELSE defaultEnvironment' = defaultEnvironment /\ ret' = [threw |-> NotFound]
    /\ UNCHANGED <<pc, namingVars, now, requests, calls, RATE_LIMIT_CONFIG, services,
                   registeredOperationIds, definitions, toolOperation, ENVIRONMENT_CONFIG,
                   sessionVars>>

NextEnvironments ==
    Construct \/ GetService \/ GetEnvironments \/ GetDefaultEnvironment \/ SetDefaultEnvironment

SpecEnvironments == InitEnvironments /\ [][NextEnvironments]_vars

====
